---------------------------- MODULE Spec2Model ----------------------------
(***************************************************************************)
(* Feed ranking and mixing of nurunuru-core (recommendation.rs).           *)
(*                                                                         *)
(* f64 values are modelled as exact rationals [n, d] with d > 0 in lowest  *)
(* terms; the record [n |-> 0, d |-> 0] is NaN.  Option<T> is a sequence   *)
(* of length at most one.  HashSet is a set, HashMap a function whose      *)
(* DOMAIN is the set of keys present.                                      *)
(***************************************************************************)
EXTENDS Integers, Sequences, FiniteSets, TLC

---------------------------------------------------------------------------
(* Bounds of the model                                                     *)

MaxPosts == 3

MaxLimit == 3

\* longest candidate list of the repeated calls
MaxRepeatPosts == 2

\* largest small count find_nearest_relays is called with
MaxCount == 4

\* relay URLs in one call of filter_valid_relays
MaxRelays == 2

MaxMarks == 8

---------------------------------------------------------------------------
(* f64 as exact rationals                                                  *)

RECURSIVE Gcd(_, _)
Gcd(a, b) == IF b = 0 THEN a ELSE Gcd(b, a % b)

Abs(x) == IF x < 0 THEN -x ELSE x

NaN == [n |-> 0, d |-> 0]

IsNaN(x) == x.d = 0

\* the rational p/q (q > 0) in lowest terms
R(p, q) ==
    LET g == Gcd(Abs(p), q)
    IN  [n |-> p \div g, d |-> q \div g]

F(k) == [n |-> k, d |-> 1]

\* a * b on f64: NaN is absorbing
Mul(a, b) ==
    IF IsNaN(a) \/ IsNaN(b) THEN NaN
    ELSE LET g1 == Gcd(Abs(a.n), b.d)
             g2 == Gcd(Abs(b.n), a.d)
         IN  [n |-> (a.n \div g1) * (b.n \div g2),
              d |-> (a.d \div g2) * (b.d \div g1)]

\* a + b on f64
Add(a, b) ==
    IF IsNaN(a) \/ IsNaN(b) THEN NaN
    ELSE R(a.n * b.d + b.n * a.d, a.d * b.d)

\* a < b for non-negative rationals, by continued-fraction descent
RECURSIVE PosLess(_, _, _, _)
PosLess(n1, d1, n2, d2) ==
    LET q1 == n1 \div d1
        q2 == n2 \div d2
        r1 == n1 % d1
        r2 == n2 % d2
    IN  IF q1 # q2 THEN q1 < q2
        ELSE IF r2 = 0 THEN FALSE
        ELSE IF r1 = 0 THEN TRUE
        ELSE PosLess(d2, r2, d1, r1)

\* a < b on f64: false when either side is NaN
Less(a, b) ==
    IF IsNaN(a) \/ IsNaN(b) THEN FALSE
    ELSE IF a.n < 0 /\ b.n >= 0 THEN TRUE
    ELSE IF a.n >= 0 /\ b.n < 0 THEN FALSE
    ELSE IF a.n >= 0 THEN PosLess(a.n, a.d, b.n, b.d)
    ELSE PosLess(-b.n, b.d, -a.n, a.d)

Leq(a, b) == ~IsNaN(a) /\ ~IsNaN(b) /\ ~Less(b, a)

FMin(a, b) == IF IsNaN(a) THEN b ELSE IF IsNaN(b) THEN a ELSE IF Less(b, a) THEN b ELSE a

FMax(a, b) == IF IsNaN(a) THEN b ELSE IF IsNaN(b) THEN a ELSE IF Less(a, b) THEN b ELSE a

\* `x as usize`: truncation toward zero, saturating; NaN and negatives give 0
AsUsize(x) == IF IsNaN(x) \/ x.n < 0 THEN 0 ELSE x.n \div x.d

None == <<>>

Some(v) == <<v>>

\* HashMap::get(k).unwrap_or(dflt)
GetOr(m, k, dflt) == IF k \in DOMAIN m THEN m[k] ELSE dflt

EmptyMap == [k \in {} |-> 0]

---------------------------------------------------------------------------
(* Numeric library functions                                               *)

\* a / b on f64 for finite operands; the modelled configurations keep every
\* divisor positive, a zero divisor is mapped to NaN
Div(a, b) ==
    IF IsNaN(a) \/ IsNaN(b) \/ b.n = 0 THEN NaN
    ELSE IF b.n > 0 THEN Mul(a, [n |-> b.d, d |-> b.n])
    ELSE Mul(a, [n |-> -b.d, d |-> -b.n])

RECURSIVE Pow(_, _)
Pow(b, k) == IF k = 0 THEN 1 ELSE b * Pow(b, k - 1)

\* 0.5_f64.powf(e) for e >= 0: exact at integer exponents, and between two
\* integer exponents the chord through the two exact values
HalfPowf(e) ==
    IF IsNaN(e) \/ e.n < 0 THEN NaN
    ELSE LET k    == e.n \div e.d
             frac == R(e.n % e.d, e.d)
         IN  Mul(R(1, Pow(2, k)), Add(F(1), Mul(frac, R(-1, 2))))

RECURSIVE ILog10(_)
ILog10(x) == IF x < 10 THEN 0 ELSE 1 + ILog10(x \div 10)

\* (x as f64).log10() for x >= 1: exact at powers of ten, and between two
\* powers of ten the chord through the two exact values
Log10(x) ==
    LET k == ILog10(x)
        p == Pow(10, k)
    IN  Add(F(k), R(x - p, 9 * p))

---------------------------------------------------------------------------
(* IEEE 754 binary64, for the results where the rounding of f64 matters.   *)
(* A natural number beyond 32 bits is a sequence of base-10000 digits,     *)
(* least significant first, <<>> being 0.  A positive f64 is [m, e] with   *)
(* value m * 2^e and 2^52 <= m < 2^53; 0.0 is [m |-> <<>>, e |-> 0].       *)

Base == 10000

RECURSIVE BigOf(_)
BigOf(n) == IF n = 0 THEN <<>> ELSE <<n % Base>> \o BigOf(n \div Base)

\* the number written in groups of four decimal digits, most significant first
Big(groups) == [i \in 1..Len(groups) |-> groups[Len(groups) + 1 - i]]

RECURSIVE BigTrim(_)
BigTrim(x) ==
    IF x # <<>> /\ x[Len(x)] = 0 THEN BigTrim(SubSeq(x, 1, Len(x) - 1)) ELSE x

RECURSIVE BigAddC(_, _, _)
BigAddC(x, y, c) ==
    IF x = <<>> /\ y = <<>> THEN BigOf(c)
    ELSE LET t == (IF x = <<>> THEN 0 ELSE x[1]) + (IF y = <<>> THEN 0 ELSE y[1]) + c
         IN  <<t % Base>> \o BigAddC(IF x = <<>> THEN <<>> ELSE Tail(x),
                                     IF y = <<>> THEN <<>> ELSE Tail(y), t \div Base)

BigAdd(x, y) == BigAddC(x, y, 0)

\* x * k + c for a digit k
RECURSIVE BigMulDigit(_, _, _)
BigMulDigit(x, k, c) ==
    IF x = <<>> THEN BigOf(c)
    ELSE LET t == x[1] * k + c
         IN  <<t % Base>> \o BigMulDigit(Tail(x), k, t \div Base)

RECURSIVE BigMul(_, _)
BigMul(x, y) ==
    IF x = <<>> \/ y = <<>> THEN <<>>
    ELSE LET high == BigMul(x, Tail(y))
         IN  BigAdd(BigTrim(BigMulDigit(x, y[1], 0)),
                    IF high = <<>> THEN <<>> ELSE <<0>> \o high)

\* quotient digits (most significant digit of x first) and remainder of x / k
RECURSIVE BigDivFrom(_, _, _)
BigDivFrom(x, k, r) ==
    IF x = <<>> THEN [q |-> <<>>, r |-> r]
    ELSE LET t    == r * Base + x[Len(x)]
             rest == BigDivFrom(SubSeq(x, 1, Len(x) - 1), k, t % k)
         IN  [q |-> rest.q \o <<t \div k>>, r |-> rest.r]

\* x \div k and x % k for 0 < k < 200000
BigDivSmall(x, k) ==
    LET d == BigDivFrom(x, k, 0)
    IN  [q |-> BigTrim(d.q), r |-> d.r]

RECURSIVE BigLessFrom(_, _, _)
BigLessFrom(x, y, i) ==
    IF i = 0 THEN FALSE
    ELSE IF x[i] # y[i] THEN x[i] < y[i]
    ELSE BigLessFrom(x, y, i - 1)

BigLess(x, y) == IF Len(x) # Len(y) THEN Len(x) < Len(y) ELSE BigLessFrom(x, y, Len(x))

\* x * 2^k, thirteen binary digits at a time (2^13 < Base)
RECURSIVE BigShiftLeft(_, _)
BigShiftLeft(x, k) ==
    IF k > 13 THEN BigShiftLeft(BigTrim(BigMulDigit(x, 2^13, 0)), k - 13)
    ELSE BigTrim(BigMulDigit(x, 2^k, 0))

Two40 == BigShiftLeft(<<1>>, 40)

Two52 == BigShiftLeft(<<1>>, 52)

Two53 == BigShiftLeft(<<1>>, 53)

Two65 == BigShiftLeft(<<1>>, 65)

F64Zero == [m |-> <<>>, e |-> 0]

\* round to nearest, ties to even: the f64 nearest to (p + f) * 2^e, where p > 0
\* and the fraction 0 <= f < 1 has the first binary digit g and some later
\* digit set exactly if st; a fraction f > 0 requires p >= 2^52.  Binary
\* digits are dropped or appended twelve at a time while that leaves 2^53 <= p
\* or p < 2^52, one at a time after that.
RECURSIVE F64Round(_, _, _, _)
F64Round(p, e, g, st) ==
    IF ~BigLess(p, Two53)
    THEN LET j == IF BigLess(p, Two65) THEN 1 ELSE 12
             h == BigDivSmall(p, 2^j)
         IN  F64Round(h.q, e + j, h.r \div 2^(j - 1),
                      st \/ g = 1 \/ h.r % 2^(j - 1) # 0)
    ELSE IF BigLess(p, Two52)
    THEN LET j == IF BigLess(p, Two40) THEN 12 ELSE 1
         IN  F64Round(BigTrim(BigMulDigit(p, 2^j, 0)), e - j, 0, FALSE)
    ELSE LET m == IF g = 1 /\ (st \/ p[1] % 2 = 1) THEN BigAdd(p, <<1>>) ELSE p
         IN  IF m = Two53 THEN [m |-> Two52, e |-> e + 1] ELSE [m |-> m, e |-> e]

\* a * b on positive f64 and zero
F64Mul(a, b) ==
    IF a.m = <<>> \/ b.m = <<>> THEN F64Zero
    ELSE F64Round(BigMul(a.m, b.m), a.e + b.e, 0, FALSE)

\* a + b on positive f64 and zero
F64Add(a, b) ==
    IF a.m = <<>> THEN b
    ELSE IF b.m = <<>> THEN a
    ELSE LET e0 == IF a.e < b.e THEN a.e ELSE b.e
         IN  F64Round(BigAdd(BigShiftLeft(a.m, a.e - e0), BigShiftLeft(b.m, b.e - e0)),
                      e0, 0, FALSE)

\* a < b on positive f64 and zero
F64Less(a, b) ==
    IF b.m = <<>> THEN FALSE
    ELSE IF a.m = <<>> THEN TRUE
    ELSE IF a.e # b.e THEN a.e < b.e
    ELSE BigLess(a.m, b.m)

F64Leq(a, b) == ~F64Less(b, a)

\* f64::min
F64Min(a, b) == IF F64Less(b, a) THEN b ELSE a

\* `n as f64` for 0 <= n < 2^31: exact
F64OfNat(n) == IF n = 0 THEN F64Zero ELSE F64Round(BigOf(n), 0, 0, FALSE)

\* the f64 a decimal literal p/q denotes: the nearest to p/q (0 < p, 0 < q < 200000)
F64Lit(p, q) ==
    LET d == BigDivSmall(BigShiftLeft(BigOf(p), 64), q)
    IN  F64Round(d.q, -64, 0, d.r # 0)

---------------------------------------------------------------------------
(* Configuration (config.rs, types.rs)                                     *)

DefaultEngagementWeights ==
    [zap |-> F(100), reply |-> F(30), repost |-> F(25), like |-> F(5),
     quote |-> F(35), bookmark |-> F(15)]

DefaultSocialBoostConfig ==
    [second_degree |-> F(3), mutual_follow |-> R(5, 2),
     high_engagement_author |-> F(2), first_degree |-> R(1, 2),
     unknown |-> F(1)]

DefaultTimeDecayConfig ==
    [half_life_hours |-> F(6), max_age_hours |-> F(48),
     freshness_boost |-> R(3, 2), min_score |-> R(1, 10)]

DefaultFeedMixRatio ==
    [second_degree |-> R(1, 2), out_of_network |-> R(3, 10),
     first_degree |-> R(1, 5)]

DefaultRecommendationConfig ==
    [engagement_weights |-> DefaultEngagementWeights,
     social_boost |-> DefaultSocialBoostConfig,
     time_decay |-> DefaultTimeDecayConfig,
     feed_mix |-> DefaultFeedMixRatio]

DefaultEngagementData ==
    [likes |-> 0, reposts |-> 0, replies |-> 0, zaps |-> 0, quotes |-> 0]

DefaultEngagementHistory ==
    [liked_authors |-> EmptyMap, reposted_authors |-> EmptyMap,
     replied_authors |-> EmptyMap]

---------------------------------------------------------------------------
(* Signal calculators (recommendation.rs)                                  *)

\* time_decay with both boundaries inclusive
time_decay_inclusive(config, created_at, now) ==
    LET age_secs  == IF now > created_at THEN now - created_at ELSE 0
        age_hours == R(age_secs, 3600)
        td        == config.time_decay
    IN  IF Leq(age_hours, F(1)) THEN td.freshness_boost
        ELSE IF Leq(td.max_age_hours, age_hours) THEN td.min_score
        ELSE HalfPowf(Div(age_hours, td.half_life_hours))

\* the clock read of time_decay is the parameter now
time_decay(config, created_at, now) ==
    LET age_secs  == IF now > created_at THEN now - created_at ELSE 0
        age_hours == R(age_secs, 3600)
        td        == config.time_decay
    IN  IF Less(age_hours, F(1)) THEN td.freshness_boost
        ELSE IF Less(td.max_age_hours, age_hours) THEN td.min_score
        ELSE HalfPowf(Div(age_hours, td.half_life_hours))

\* engagement_score weighing quotes by the bookmark weight
engagement_score_bookmark(config, data) ==
    LET w == config.engagement_weights
    IN  Add(Add(Add(Add(Add(Mul(F(data.zaps), w.zap),
                            Mul(F(data.replies), w.reply)),
                        Mul(F(data.reposts), w.repost)),
                    Mul(F(data.likes), w.like)),
                Mul(F(data.quotes), w.bookmark)),
            F(1))

engagement_score(config, data) ==
    LET w == config.engagement_weights
    IN  Add(Add(Add(Add(Add(Mul(F(data.zaps), w.zap),
                            Mul(F(data.replies), w.reply)),
                        Mul(F(data.reposts), w.repost)),
                    Mul(F(data.likes), w.like)),
                Mul(F(data.quotes), w.quote)),
            F(1))

\* social_boost testing second_degree before follow_list
social_boost_second_first(config, author_pubkey, follow_list, second_degree, followers, engagement_history) ==
    LET sb       == config.social_boost
        liked    == GetOr(engagement_history.liked_authors, author_pubkey, 0)
        reposted == GetOr(engagement_history.reposted_authors, author_pubkey, 0)
        replied  == GetOr(engagement_history.replied_authors, author_pubkey, 0)
        total_engagements == liked + reposted * 2 + replied * 3
        engagement_boost ==
            IF total_engagements >= 10 THEN sb.high_engagement_author
            ELSE IF total_engagements >= 5 THEN R(3, 2)
            ELSE F(1)
    IN  IF author_pubkey \in second_degree
        THEN Mul(sb.second_degree, engagement_boost)
        ELSE IF author_pubkey \in follow_list
        THEN IF author_pubkey \in followers
             THEN Mul(sb.mutual_follow, engagement_boost)
             ELSE Mul(sb.first_degree, engagement_boost)
        ELSE Mul(sb.unknown, engagement_boost)

\* social_boost with strict thresholds
social_boost_strict(config, author_pubkey, follow_list, second_degree, followers, engagement_history) ==
    LET sb       == config.social_boost
        liked    == GetOr(engagement_history.liked_authors, author_pubkey, 0)
        reposted == GetOr(engagement_history.reposted_authors, author_pubkey, 0)
        replied  == GetOr(engagement_history.replied_authors, author_pubkey, 0)
        total_engagements == liked + reposted * 2 + replied * 3
        engagement_boost ==
            IF total_engagements > 10 THEN sb.high_engagement_author
            ELSE IF total_engagements > 5 THEN R(3, 2)
            ELSE F(1)
    IN  IF author_pubkey \in follow_list
        THEN IF author_pubkey \in followers
             THEN Mul(sb.mutual_follow, engagement_boost)
             ELSE Mul(sb.first_degree, engagement_boost)
        ELSE IF author_pubkey \in second_degree
        THEN Mul(sb.second_degree, engagement_boost)
        ELSE Mul(sb.unknown, engagement_boost)

social_boost(config, author_pubkey, follow_list, second_degree, followers, engagement_history) ==
    LET sb       == config.social_boost
        liked    == GetOr(engagement_history.liked_authors, author_pubkey, 0)
        reposted == GetOr(engagement_history.reposted_authors, author_pubkey, 0)
        replied  == GetOr(engagement_history.replied_authors, author_pubkey, 0)
        total_engagements == liked + reposted * 2 + replied * 3
        engagement_boost ==
            IF total_engagements >= 10 THEN sb.high_engagement_author
            ELSE IF total_engagements >= 5 THEN R(3, 2)
            ELSE F(1)
    IN  IF author_pubkey \in follow_list
        THEN IF author_pubkey \in followers
             THEN Mul(sb.mutual_follow, engagement_boost)
             ELSE Mul(sb.first_degree, engagement_boost)
        ELSE IF author_pubkey \in second_degree
        THEN Mul(sb.second_degree, engagement_boost)
        ELSE Mul(sb.unknown, engagement_boost)

\* profile is an Option<UserProfile>
author_quality(profile, follower_count) ==
    LET q1 == IF profile # None /\ profile[1].nip05 # "" THEN R(13, 10) ELSE F(1)
        follower_boost ==
            Add(F(1), Mul(Log10(IF follower_count < 1 THEN 1 ELSE follower_count),
                          R(1, 10)))
    IN  IF follower_count > 0
        THEN Mul(q1, FMin(follower_boost, R(3, 2)))
        ELSE q1

\* (x as f64).log10() in binary64 for the follower counts x >= 1 at which
\* author_quality is called directly: exact at a power of ten, and the f64
\* nearest to the logarithm elsewhere (0.6989700043360189, 4.999995657033466)
Log10Doubles ==
    (5 :> [m |-> Big(<<6295, 7621, 214, 1697>>), e |-> -53])
    @@ (99999 :> [m |-> Big(<<5629, 4946, 4446, 7504>>), e |-> -50])

Log10F64(x) ==
    IF x = Pow(10, ILog10(x)) THEN F64OfNat(ILog10(x)) ELSE Log10Doubles[x]

\* author_quality without the cap of the follower boost
author_quality_f64_uncapped(profile, follower_count) ==
    LET q0 == F64OfNat(1)
        q1 == IF profile # None /\ profile[1].nip05 # ""
              THEN F64Mul(q0, F64Lit(13, 10)) ELSE q0
        follower_boost ==
            F64Add(F64OfNat(1),
                   F64Mul(Log10F64(IF follower_count < 1 THEN 1 ELSE follower_count),
                          F64Lit(1, 10)))
    IN  IF follower_count > 0 THEN F64Mul(q1, follower_boost) ELSE q1

\* author_quality as the f64 it returns, every operation rounded as binary64
\* rounds it (author_quality above is the same expression in real arithmetic)
author_quality_f64(profile, follower_count) ==
    LET q0 == F64OfNat(1)
        q1 == IF profile # None /\ profile[1].nip05 # ""
              THEN F64Mul(q0, F64Lit(13, 10)) ELSE q0
        follower_boost ==
            F64Add(F64OfNat(1),
                   F64Mul(Log10F64(IF follower_count < 1 THEN 1 ELSE follower_count),
                          F64Lit(1, 10)))
    IN  IF follower_count > 0
        THEN F64Mul(q1, F64Min(follower_boost, F64Lit(3, 2)))
        ELSE q1

\* length of the common prefix of two character sequences
RECURSIVE CommonPrefix(_, _)
CommonPrefix(u, a) ==
    IF u = <<>> \/ a = <<>> \/ Head(u) # Head(a) THEN 0
    ELSE 1 + CommonPrefix(Tail(u), Tail(a))

\* geohash_boost with strict thresholds
geohash_boost_strict(user_geohash, author_geohash) ==
    IF user_geohash # None /\ author_geohash # None
    THEN LET common == CommonPrefix(user_geohash[1], author_geohash[1])
         IN  IF common > 5 THEN F(2)
             ELSE IF common > 3 THEN R(3, 2)
             ELSE IF common > 2 THEN R(6, 5)
             ELSE F(1)
    ELSE F(1)

\* both arguments are Option<&str>, a string being a sequence of characters
geohash_boost(user_geohash, author_geohash) ==
    IF user_geohash # None /\ author_geohash # None
    THEN LET common == CommonPrefix(user_geohash[1], author_geohash[1])
         IN  IF common >= 5 THEN F(2)
             ELSE IF common >= 3 THEN R(3, 2)
             ELSE IF common >= 2 THEN R(6, 5)
             ELSE F(1)
    ELSE F(1)

---------------------------------------------------------------------------
(* Post scorer (recommendation.rs, score_post)                             *)

(* ctx gathers the read-only arguments that score_post and rank_feed pass  *)
(* along unchanged: follow_list, second_degree_follows, followers,         *)
(* engagement_history, profiles, muted_pubkeys, not_interested_posts,      *)
(* author_scores, user_geohash, author_stats.                              *)

\* the author location score_post hands to geohash_boost
author_geohash_from_profile(profile) ==
    IF profile = None THEN None ELSE Some(<<"x", "n", "7", "6", "u">>)

author_geohash(profile) == None

\* score_post with the not-interested test left out of the hard filter
score_post_muted_only(config, event_id, author_pubkey, created_at, engagement, ctx, follower_count, now) ==
    IF author_pubkey \in ctx.muted_pubkeys
    THEN None
    ELSE LET final_score ==
                 Mul(Mul(Mul(Mul(Mul(engagement_score(config, engagement),
                                     social_boost(config, author_pubkey, ctx.follow_list,
                                                  ctx.second_degree_follows, ctx.followers,
                                                  ctx.engagement_history)),
                                 author_quality(IF author_pubkey \in DOMAIN ctx.profiles
                                                THEN Some(ctx.profiles[author_pubkey])
                                                ELSE None, follower_count)),
                             geohash_boost(ctx.user_geohash, None)),
                         GetOr(ctx.author_scores, author_pubkey, F(1))),
                     time_decay(config, created_at, now))
         IN  IF Less(F(0), final_score) THEN Some(final_score) ELSE None

\* score_post keeping every score that is not negative
score_post_nonnegative(config, event_id, author_pubkey, created_at, engagement, ctx, follower_count, now) ==
    IF event_id \in ctx.not_interested_posts \/ author_pubkey \in ctx.muted_pubkeys
    THEN None
    ELSE LET final_score ==
                 Mul(Mul(Mul(Mul(Mul(engagement_score(config, engagement),
                                     social_boost(config, author_pubkey, ctx.follow_list,
                                                  ctx.second_degree_follows, ctx.followers,
                                                  ctx.engagement_history)),
                                 author_quality(IF author_pubkey \in DOMAIN ctx.profiles
                                                THEN Some(ctx.profiles[author_pubkey])
                                                ELSE None, follower_count)),
                             geohash_boost(ctx.user_geohash, None)),
                         GetOr(ctx.author_scores, author_pubkey, F(1))),
                     time_decay(config, created_at, now))
         IN  IF Leq(F(0), final_score) THEN Some(final_score) ELSE None

\* Option<f64>: None for a filtered post
score_post(config, event_id, author_pubkey, created_at, engagement, ctx, follower_count, now) ==
    IF event_id \in ctx.not_interested_posts \/ author_pubkey \in ctx.muted_pubkeys
    THEN None
    ELSE LET eng_score == engagement_score(config, engagement)
             social    == social_boost(config, author_pubkey, ctx.follow_list,
                                       ctx.second_degree_follows, ctx.followers,
                                       ctx.engagement_history)
             profile   == IF author_pubkey \in DOMAIN ctx.profiles
                          THEN Some(ctx.profiles[author_pubkey]) ELSE None
             quality   == author_quality(profile, follower_count)
             geo       == geohash_boost(ctx.user_geohash, author_geohash(profile))
             author_modifier == GetOr(ctx.author_scores, author_pubkey, F(1))
             time      == time_decay(config, created_at, now)
             final_score ==
                 Mul(Mul(Mul(Mul(Mul(eng_score, social), quality), geo),
                         author_modifier), time)
         IN  IF Less(F(0), final_score) THEN Some(final_score) ELSE None

---------------------------------------------------------------------------
(* Feed mixer (recommendation.rs, rank_feed)                               *)

\* a candidate is a tuple <<event_id, pubkey, created_at>>
ScoreOf(config, post, engagements, ctx, now) ==
    score_post(config, post[1], post[2], post[3],
               GetOr(engagements, post[1], DefaultEngagementData), ctx,
               GetOr(ctx.author_stats, post[2], 0), now)

\* the vector scored: the candidates score_post keeps, in input order
ScoreAll(config, posts, engagements, ctx, now) ==
    LET opt  == [i \in 1..Len(posts) |->
                    <<posts[i], ScoreOf(config, posts[i], engagements, ctx, now)>>]
        kept == SelectSeq(opt, LAMBDA x : x[2] # None)
    IN  [i \in 1..Len(kept) |->
            [event_id |-> kept[i][1][1], pubkey |-> kept[i][1][2],
             score |-> kept[i][2][1], created_at |-> kept[i][1][3]]]

\* the category test with the follow list consulted first
Category_follow_first(sp, ctx) ==
    IF sp.pubkey \in ctx.follow_list THEN "1st"
    ELSE IF sp.pubkey \in ctx.second_degree_follows THEN "2nd"
    ELSE "out"

\* the category of a scored post
Category(sp, ctx) ==
    IF sp.pubkey \in ctx.second_degree_follows THEN "2nd"
    ELSE IF sp.pubkey \in ctx.follow_list THEN "1st"
    ELSE "out"

cat_2nd(scored, ctx) == SelectSeq(scored, LAMBDA sp : Category(sp, ctx) = "2nd")

cat_out(scored, ctx) == SelectSeq(scored, LAMBDA sp : Category(sp, ctx) = "out")

cat_1st(scored, ctx) == SelectSeq(scored, LAMBDA sp : Category(sp, ctx) = "1st")

\* the comparator b.score.partial_cmp(&a.score).unwrap_or(Equal) puts a
\* before b exactly when a.score > b.score
Before(a, b) == Less(b.score, a.score)

\* sort_by: a stable sort, score descending
RECURSIVE sort_desc(_)
sort_desc(s) ==
    IF s = <<>> THEN <<>>
    ELSE LET rest == sort_desc(SubSeq(s, 1, Len(s) - 1))
             x    == s[Len(s)]
             k    == Cardinality({j \in 1..Len(rest) : ~Before(x, rest[j])})
         IN  SubSeq(rest, 1, k) \o <<x>> \o SubSeq(rest, k + 1, Len(rest))

Min(a, b) == IF a < b THEN a ELSE b

\* cat.len().min((limit as f64 * ratio) as usize)
Target(len, limit, ratio) == Min(len, AsUsize(Mul(F(limit), ratio)))

target_2nd(config, scored, ctx, limit) ==
    Target(Len(cat_2nd(scored, ctx)), limit, config.feed_mix.second_degree)

target_out(config, scored, ctx, limit) ==
    Target(Len(cat_out(scored, ctx)), limit, config.feed_mix.out_of_network)

target_1st(config, scored, ctx, limit) ==
    Target(Len(cat_1st(scored, ctx)), limit, config.feed_mix.first_degree)

\* take and truncate with an inclusive bound
Take_inclusive(s, n) == SubSeq(s, 1, Min(n + 1, Len(s)))

\* iter().take(n)
Take(s, n) == SubSeq(s, 1, Min(n, Len(s)))

\* the quota loops over the categories as collected, without the sort
MixCategories_unsorted(config, scored, ctx, limit) ==
    Take(cat_2nd(scored, ctx), target_2nd(config, scored, ctx, limit))
    \o Take(cat_out(scored, ctx), target_out(config, scored, ctx, limit))
    \o Take(cat_1st(scored, ctx), target_1st(config, scored, ctx, limit))

\* "Mix categories": result after the three quota loops
MixCategories(config, scored, ctx, limit) ==
    Take(sort_desc(cat_2nd(scored, ctx)), target_2nd(config, scored, ctx, limit))
    \o Take(sort_desc(cat_out(scored, ctx)), target_out(config, scored, ctx, limit))
    \o Take(sort_desc(cat_1st(scored, ctx)), target_1st(config, scored, ctx, limit))

Ids(s) == {s[i].event_id : i \in 1..Len(s)}

\* the fill loop over the globally sorted vector, from position i on
RECURSIVE FillLoop(_, _, _, _, _)
FillLoop(sorted, i, result, result_ids, limit) ==
    IF i > Len(sorted) \/ Len(result) >= limit THEN result
    ELSE IF sorted[i].event_id \notin result_ids
    THEN FillLoop(sorted, i + 1, Append(result, sorted[i]),
                  result_ids \cup {sorted[i].event_id}, limit)
    ELSE FillLoop(sorted, i + 1, result, result_ids, limit)

\* the fill step stopping at remaining entries instead of limit
FillRemaining_stop_early(result, scored, limit) ==
    LET remaining == IF limit > Len(result) THEN limit - Len(result) ELSE 0
    IN  IF remaining > 0
        THEN FillLoop(sort_desc(scored), 1, result, Ids(result), remaining)
        ELSE result

\* the fill step over the scored vector in input order, without the sort
FillRemaining_unsorted(result, scored, limit) ==
    LET remaining == IF limit > Len(result) THEN limit - Len(result) ELSE 0
    IN  IF remaining > 0
        THEN FillLoop(scored, 1, result, Ids(result), limit)
        ELSE result

\* "Fill remaining": result after the fill step
FillRemaining(result, scored, limit) ==
    LET remaining == IF limit > Len(result) THEN limit - Len(result) ELSE 0
    IN  IF remaining > 0
        THEN FillLoop(sort_desc(scored), 1, result, Ids(result), limit)
        ELSE result

\* the final step without truncate(limit)
FinalSort_no_truncate(result, limit) == sort_desc(result)

\* the final step without the sort
FinalSort_no_sort(result, limit) == Take(result, limit)

\* "Final sort by score" and truncate(limit)
FinalSort(result, limit) == Take(sort_desc(result), limit)

---------------------------------------------------------------------------
(* Second-degree network (recommendation.rs, extract_2nd_degree_network)   *)

\* the inner loop: every pubkey of their_follows outside my_follows is inserted
RECURSIVE InsertNotFollowed(_, _, _)
InsertNotFollowed(second_degree, their_follows, my_follows) ==
    IF their_follows = <<>> THEN second_degree
    ELSE InsertNotFollowed(IF Head(their_follows) \notin my_follows
                           THEN second_degree \cup {Head(their_follows)}
                           ELSE second_degree,
                           Tail(their_follows), my_follows)

\* the outer loop over the entries of the map not yet visited, in one of the
\* orders a HashMap may iterate in
RECURSIVE ExtractLoop(_, _, _, _)
ExtractLoop(remaining, second_degree, my_follows, follows_of_follows) ==
    IF remaining = {} THEN second_degree
    ELSE LET follower == CHOOSE k \in remaining : TRUE
         IN  ExtractLoop(remaining \ {follower},
                         IF follower \notin my_follows THEN second_degree
                         ELSE InsertNotFollowed(second_degree,
                                                follows_of_follows[follower],
                                                my_follows),
                         my_follows, follows_of_follows)

\* the loop without the `continue` of an entry whose key is not followed
RECURSIVE ExtractLoop_every_key(_, _, _, _)
ExtractLoop_every_key(remaining, second_degree, my_follows, follows_of_follows) ==
    IF remaining = {} THEN second_degree
    ELSE LET follower == CHOOSE k \in remaining : TRUE
         IN  ExtractLoop_every_key(remaining \ {follower},
                                   InsertNotFollowed(second_degree,
                                                     follows_of_follows[follower],
                                                     my_follows),
                                   my_follows, follows_of_follows)

extract_2nd_degree_network_every_key(my_follows, follows_of_follows) ==
    ExtractLoop_every_key(DOMAIN follows_of_follows, {}, my_follows, follows_of_follows)

extract_2nd_degree_network(my_follows, follows_of_follows) ==
    ExtractLoop(DOMAIN follows_of_follows, {}, my_follows, follows_of_follows)

---------------------------------------------------------------------------
(* Relay selection by distance (relay.rs)                                  *)

\* GPS_RELAY_DATABASE: url, lat and lon (f64 literals of at most five
\* decimals, as rationals), priority
GPS_RELAY_DATABASE ==
    <<[url |-> "wss://yabu.me", lat |-> R(3560920, 100000), lon |-> R(13973000, 100000), priority |-> 1],
      [url |-> "wss://relay.nostr.wirednet.jp", lat |-> R(3470600, 100000), lon |-> R(13549300, 100000), priority |-> 1],
      [url |-> "wss://r.kojira.io", lat |-> R(3567620, 100000), lon |-> R(13965030, 100000), priority |-> 1],
      [url |-> "wss://relay.origin.land", lat |-> R(3566730, 100000), lon |-> R(13975100, 100000), priority |-> 2],
      [url |-> "wss://v-relay.d02.vrtmrz.net", lat |-> R(3469370, 100000), lon |-> R(13550200, 100000), priority |-> 2],
      [url |-> "wss://relay.0xchat.com", lat |-> R(135208, 100000), lon |-> R(10382000, 100000), priority |-> 1],
      [url |-> "wss://nostr-01.yakihonne.com", lat |-> R(129524, 100000), lon |-> R(10379000, 100000), priority |-> 2],
      [url |-> "wss://nostr.dler.com", lat |-> R(2505010, 100000), lon |-> R(12156500, 100000), priority |-> 2],
      [url |-> "wss://relay.islandbitcoin.com", lat |-> R(1284980, 100000), lon |-> R(7765450, 100000), priority |-> 2],
      [url |-> "wss://nostr.jerrynya.fun", lat |-> R(3123040, 100000), lon |-> R(12147400, 100000), priority |-> 2],
      [url |-> "wss://relay.damus.io", lat |-> R(4365320, 100000), lon |-> R(-7938320, 100000), priority |-> 1],
      [url |-> "wss://relay.primal.net", lat |-> R(4365320, 100000), lon |-> R(-7938320, 100000), priority |-> 1],
      [url |-> "wss://relay.wellorder.net", lat |-> R(4552010, 100000), lon |-> R(-12299000, 100000), priority |-> 2],
      [url |-> "wss://relay.illuminodes.com", lat |-> R(4760610, 100000), lon |-> R(-12233300, 100000), priority |-> 2],
      [url |-> "wss://relay.fundstr.me", lat |-> R(4236010, 100000), lon |-> R(-7105890, 100000), priority |-> 2],
      [url |-> "wss://nostrelites.org", lat |-> R(4187810, 100000), lon |-> R(-8762980, 100000), priority |-> 2],
      [url |-> "wss://relay.westernbtc.com", lat |-> R(4454010, 100000), lon |-> R(-12336800, 100000), priority |-> 2],
      [url |-> "wss://cyberspace.nostr1.com", lat |-> R(4070570, 100000), lon |-> R(-7401360, 100000), priority |-> 2],
      [url |-> "wss://fanfares.nostr1.com", lat |-> R(4071280, 100000), lon |-> R(-7400600, 100000), priority |-> 2],
      [url |-> "wss://nos.lol", lat |-> R(5047540, 100000), lon |-> R(1236830, 100000), priority |-> 1],
      [url |-> "wss://relay.snort.social", lat |-> R(5334980, 100000), lon |-> R(-626031, 100000), priority |-> 1],
      [url |-> "wss://nostr.wine", lat |-> R(4885660, 100000), lon |-> R(235222, 100000), priority |-> 1],
      [url |-> "wss://relay.nostr.band", lat |-> R(5252000, 100000), lon |-> R(1340500, 100000), priority |-> 1],
      [url |-> "wss://nostr.bond", lat |-> R(5011090, 100000), lon |-> R(868213, 100000), priority |-> 2],
      [url |-> "wss://relay.thebluepulse.com", lat |-> R(4945210, 100000), lon |-> R(1107670, 100000), priority |-> 2],
      [url |-> "wss://relay.lumina.rocks", lat |-> R(4902910, 100000), lon |-> R(835695, 100000), priority |-> 2],
      [url |-> "wss://relay.dwadziesciajeden.pl", lat |-> R(5222970, 100000), lon |-> R(2101220, 100000), priority |-> 2],
      [url |-> "wss://relay.angor.io", lat |-> R(4810460, 100000), lon |-> R(1160020, 100000), priority |-> 2],
      [url |-> "wss://relay.malxte.de", lat |-> R(5252000, 100000), lon |-> R(1340500, 100000), priority |-> 2],
      [url |-> "wss://purplerelay.com", lat |-> R(5011090, 100000), lon |-> R(868213, 100000), priority |-> 2],
      [url |-> "wss://nostr.mom", lat |-> R(5047540, 100000), lon |-> R(1236830, 100000), priority |-> 2],
      [url |-> "wss://relay.nostrhub.fr", lat |-> R(4810450, 100000), lon |-> R(1160040, 100000), priority |-> 2],
      [url |-> "wss://wot.dergigi.com", lat |-> R(6414760, 100000), lon |-> R(-2193920, 100000), priority |-> 2],
      [url |-> "wss://lightning.red", lat |-> R(5334980, 100000), lon |-> R(-626031, 100000), priority |-> 2],
      [url |-> "wss://relay.nostr.bg", lat |-> R(4269770, 100000), lon |-> R(2332190, 100000), priority |-> 1],
      [url |-> "wss://nostr.mutinywallet.com", lat |-> R(3777490, 100000), lon |-> R(-12241940, 100000), priority |-> 2]>>

\* the coordinates the model calls find_nearest_relays with
ViewerPoints ==
    <<<<R(3560920, 100000), R(13973000, 100000)>>,
      <<R(3566730, 100000), R(13975100, 100000)>>,
      <<R(4810460, 100000), R(1160020, 100000)>>,
      <<R(4365320, 100000), R(-7938320, 100000)>>,
      <<R(0, 100000), R(0, 100000)>>,
      <<R(-3386880, 100000), R(15120930, 100000)>>,
      <<R(-2355050, 100000), R(-4663330, 100000)>>,
      <<R(3777490, 100000), R(-12241940, 100000)>>>>

\* calculate_distance in metres, rounded to the nearest metre, from
\* ViewerPoints[i] to the relay GPS_RELAY_DATABASE[j]: the value of the
\* haversine formula of the source in f64 arithmetic
HaversineMetres ==
    <<<<0, 398025, 10362, 6733, 397609, 5312352, 5319335, 2096185, 6666594, 1759886, 10354861, 10354861, 7775293, 7700056, 10798079, 10143697, 7805730, 10855835, 10855424, 9143941, 9594111, 9721605, 8925573, 9341402, 9290477, 9450713, 8587927, 9380929, 8925573, 9341402, 9143941, 9380928, 8806155, 9594111, 9182792, 8273100>>,
      <<6733, 401408, 9150, 0, 401015, 5317801, 5324786, 2100987, 6669118, 1762974, 10348247, 10348247, 7769543, 7694179, 10791383, 10137253, 7800046, 10849180, 10848769, 9139355, 9588658, 9716669, 8920912, 9336679, 9285892, 9446033, 8583580, 9376443, 8920912, 9336679, 9139355, 9376442, 8800023, 9588658, 9179220, 8267796>>,
      <<9380929, 9255997, 9370799, 9376443, 9257591, 10060383, 10062865, 9314205, 7177192, 8777798, 6630888, 6630888, 8707556, 8480771, 6185336, 7266061, 8817314, 6492403, 6491410, 269438, 1380904, 686326, 507377, 307994, 154666, 259819, 811281, 0, 507377, 307994, 269438, 19, 2683854, 1380904, 1093145, 9438607>>,
      <<10354861, 10613334, 10351522, 10348247, 10614236, 15000555, 15007055, 12081914, 13313987, 11422284, 0, 0, 3416868, 3325187, 691664, 701180, 3470838, 550430, 550444, 6535606, 5250448, 6000760, 6475891, 6332962, 6517949, 6373999, 6921322, 6630888, 6475891, 6332962, 6535606, 6630906, 4194534, 5250448, 7721584, 3643772>>,
      <<14270784, 13998728, 14260630, 14268686, 14000126, 11543821, 11540522, 13155366, 8669687, 12956019, 9155734, 9155734, 12501296, 12357884, 8464402, 9811335, 12574006, 8667553, 8667068, 5733664, 5960448, 5437295, 5972009, 5632855, 5599683, 5510300, 6129769, 5464790, 5972009, 5632855, 5733664, 5464784, 7354625, 5960448, 5287777, 12795417>>,
      <<7817217, 7798911, 7825819, 7823244, 7797387, 6306233, 6304361, 7261530, 9335851, 7881408, 15567601, 15567601, 12319846, 12470200, 16239964, 14875880, 12242568, 15988062, 15988756, 16219355, 17214414, 16960496, 16094500, 16482877, 16335010, 16537960, 15594306, 16327683, 16094500, 16482877, 16219355, 16327670, 16615709, 17214414, 15436314, 11947661>>,
      <<18540731, 18757680, 18537206, 18534098, 18758883, 15987023, 15980401, 18807907, 14046617, 18564875, 8186061, 8186061, 10861127, 10917990, 7746211, 8408038, 10840213, 7685210, 7685626, 10056848, 9392904, 9401892, 10252865, 9829339, 9913608, 9732506, 10660358, 9849165, 10252865, 9829339, 10056848, 9849169, 9984546, 9392904, 10262633, 10433673>>,
      <<8273100, 8642003, 8274615, 8267796, 8642189, 13582083, 13588999, 10356319, 14008962, 9878943, 3643772, 3643772, 862524, 1093202, 4333665, 2984908, 756420, 4128619, 4129086, 9253227, 8176631, 8953392, 9105206, 9133407, 9293885, 9215315, 9398929, 9438607, 9105206, 9133407, 9253227, 9438625, 6755521, 8176631, 10420246, 0>>>>

\* index of a point among ViewerPoints, of a relay position in the table
PointIndex(lat, lon) == CHOOSE i \in 1..Len(ViewerPoints) : ViewerPoints[i] = <<lat, lon>>

RelayIndex(lat, lon) ==
    CHOOSE j \in 1..Len(GPS_RELAY_DATABASE) :
        GPS_RELAY_DATABASE[j].lat = lat /\ GPS_RELAY_DATABASE[j].lon = lon

\* the haversine distance in km.  Equal coordinates give d_lat = d_lon = 0,
\* so a = 0 and c = 2 * atan2(0, 1) = 0; a NaN coordinate gives NaN; the
\* values of sin, cos, sqrt and atan2 elsewhere are taken from HaversineMetres
calculate_distance(lat1, lon1, lat2, lon2) ==
    IF IsNaN(lat1) \/ IsNaN(lon1) \/ IsNaN(lat2) \/ IsNaN(lon2) THEN NaN
    ELSE IF lat1 = lat2 /\ lon1 = lon2 THEN F(0)
    ELSE R(HaversineMetres[PointIndex(lat1, lon1)][RelayIndex(lat2, lon2)], 1000)

\* the vector scored of find_nearest_relays
ScoredRelays(user_lat, user_lon) ==
    [j \in 1..Len(GPS_RELAY_DATABASE) |->
        [relay |-> GPS_RELAY_DATABASE[j],
         distance |-> calculate_distance(user_lat, user_lon, GPS_RELAY_DATABASE[j].lat,
                                         GPS_RELAY_DATABASE[j].lon)]]

\* a comparator that looks at the distance only
RelayBefore_distance_only(a, b) == Less(a.distance, b.distance)

\* the comparator of sort_by returns Less: by priority, then by distance,
\* partial_cmp(..).unwrap_or(Equal)
RelayBefore(a, b) ==
    IF a.relay.priority # b.relay.priority
    THEN a.relay.priority < b.relay.priority
    ELSE Less(a.distance, b.distance)

\* sort_by: a stable sort
RECURSIVE sort_relays(_)
sort_relays(s) ==
    IF s = <<>> THEN <<>>
    ELSE LET rest == sort_relays(SubSeq(s, 1, Len(s) - 1))
             x    == s[Len(s)]
             k    == Cardinality({j \in 1..Len(rest) : ~RelayBefore(x, rest[j])})
         IN  SubSeq(rest, 1, k) \o <<x>> \o SubSeq(rest, k + 1, Len(rest))

find_nearest_relays(user_lat, user_lon, count) ==
    Take(sort_relays(ScoredRelays(user_lat, user_lon)), count)

---------------------------------------------------------------------------
(* Relay URL validation (relay.rs).  A string is the sequence of its       *)
(* characters.  Url_parse is url::Url::parse as far as the scheme and the  *)
(* host of the URL go, which is all is_valid_relay_url reads.              *)

UpperCase ==
    <<"A", "B", "C", "D", "E", "F", "G", "H", "I", "J", "K", "L", "M", "N", "O", "P", "Q", "R", "S", "T", "U", "V", "W", "X", "Y", "Z">>

LowerCase ==
    <<"a", "b", "c", "d", "e", "f", "g", "h", "i", "j", "k", "l", "m", "n", "o", "p", "q", "r", "s", "t", "u", "v", "w", "x", "y", "z">>

Digits ==
    <<"0", "1", "2", "3", "4", "5", "6", "7", "8", "9">>

Letters == {UpperCase[i] : i \in 1..26} \cup {LowerCase[i] : i \in 1..26}

DigitSet == {Digits[i] : i \in 1..10}

\* ASCII lower case of a character and of a string
ToLowerChar(c) ==
    IF \E i \in 1..26 : UpperCase[i] = c
    THEN LowerCase[CHOOSE i \in 1..26 : UpperCase[i] = c]
    ELSE c

ToLower(s) == [i \in 1..Len(s) |-> ToLowerChar(s[i])]

\* the first index from `from` on at which s has a character of set, Len(s) + 1 if none
RECURSIVE FirstIn(_, _, _)
FirstIn(s, set, from) ==
    IF from > Len(s) \/ s[from] \in set THEN from ELSE FirstIn(s, set, from + 1)

\* the last index at which s has a character of set, 0 if none
RECURSIVE LastIn(_, _)
LastIn(s, set) ==
    IF s = <<>> \/ s[Len(s)] \in set THEN Len(s)
    ELSE LastIn(SubSeq(s, 1, Len(s) - 1), set)

EndsWith(s, suffix) ==
    Len(suffix) <= Len(s) /\ SubSeq(s, Len(s) - Len(suffix) + 1, Len(s)) = suffix

\* the parts of s between the occurrences of sep
RECURSIVE Split(_, _)
Split(s, sep) ==
    LET i == FirstIn(s, {sep}, 1)
    IN  IF i > Len(s) THEN <<s>>
        ELSE <<SubSeq(s, 1, i - 1)>> \o Split(SubSeq(s, i + 1, Len(s)), sep)

IsNumber(part) == part # <<>> /\ \A i \in 1..Len(part) : part[i] \in DigitSet

DigitValue(c) == CHOOSE d \in 0..9 : Digits[d + 1] = c

RECURSIVE Decimal(_)
Decimal(part) ==
    IF part = <<>> THEN 0
    ELSE Decimal(SubSeq(part, 1, Len(part) - 1)) * 10 + DigitValue(part[Len(part)])

RECURSIVE ToDecimal(_)
ToDecimal(n) ==
    IF n < 10 THEN <<Digits[n + 1]>>
    ELSE ToDecimal(n \div 10) \o <<Digits[(n % 10) + 1]>>

UrlErr == [ok |-> FALSE]

\* the IPv4 parser of the host parser, for numbers written in decimal without a
\* leading zero and below 2^31: up to four numbers, the last one filling the
\* bytes the others leave; the address is serialised as four decimal bytes
parse_ipv4(host) ==
    LET all   == Split(host, ".")
        parts == IF all[Len(all)] = <<>> THEN SubSeq(all, 1, Len(all) - 1) ELSE all
        n     == Len(parts)
        last  == Decimal(parts[n])
        byte(j) == IF j < n THEN Decimal(parts[j])
                   ELSE (last \div Pow(256, 4 - j)) % 256
    IN  IF \/ n > 4
           \/ \E j \in 1..n : ~IsNumber(parts[j]) \/ Len(parts[j]) > 9
           \/ \E j \in 1..(n - 1) : Decimal(parts[j]) > 255
           \/ (n > 1 /\ last >= Pow(256, 5 - n))
        THEN UrlErr
        ELSE [ok |-> TRUE,
              host |-> ToDecimal(byte(1)) \o <<".">> \o ToDecimal(byte(2)) \o <<".">>
                       \o ToDecimal(byte(3)) \o <<".">> \o ToDecimal(byte(4))]

ForbiddenHostChars ==
    {" ", "#", "/", ":", "<", ">", "?", "@", "[", "\\", "]", "^", "|", "%"}

\* the host parser for a special scheme: lower case, an address when the last
\* label is a number, an error on a forbidden character
parse_host(raw) ==
    LET host   == ToLower(raw)
        labels == Split(host, ".")
        named  == IF Len(labels) > 1 /\ labels[Len(labels)] = <<>>
                  THEN SubSeq(labels, 1, Len(labels) - 1) ELSE labels
    IN  IF host = <<>> \/ \E i \in 1..Len(host) : host[i] \in ForbiddenHostChars
        THEN UrlErr
        ELSE IF IsNumber(named[Len(named)]) THEN parse_ipv4(host)
        ELSE [ok |-> TRUE, host |-> host]

SchemeWss == <<"w", "s", "s">>

\* the schemes whose URL always has a host
SpecialSchemes ==
    {<<"h", "t", "t", "p">>, <<"h", "t", "t", "p", "s">>, <<"w", "s">>, SchemeWss,
     <<"f", "t", "p">>}

\* a special scheme is followed by any number of slashes and backslashes
RECURSIVE SkipSlashes(_)
SkipSlashes(s) ==
    IF s # <<>> /\ s[1] \in {"/", "\\"} THEN SkipSlashes(Tail(s)) ELSE s

\* url::Url::parse without a base URL: [ok, scheme, host], host an Option.
\* Of a URL with another scheme than the special ones only the scheme is
\* modelled faithfully.
Url_parse(input) ==
    LET colon  == FirstIn(input, {":"}, 1)
        scheme == ToLower(SubSeq(input, 1, colon - 1))
        rest   == SkipSlashes(SubSeq(input, colon + 1, Len(input)))
        stop   == FirstIn(rest, {"/", "\\", "?", "#"}, 1)
        authority == SubSeq(rest, 1, stop - 1)
        hostport  == SubSeq(authority, LastIn(authority, {"@"}) + 1, Len(authority))
        pcolon == FirstIn(hostport, {":"}, 1)
        port   == SubSeq(hostport, pcolon + 1, Len(hostport))
        parsed == parse_host(SubSeq(hostport, 1, pcolon - 1))
    IN  IF \/ colon > Len(input)
           \/ colon = 1
           \/ input[1] \notin Letters
           \/ \E i \in 1..(colon - 1) :
                  input[i] \notin Letters \cup DigitSet \cup {"+", "-", "."}
        THEN UrlErr
        ELSE IF scheme \notin SpecialSchemes
        THEN [ok |-> TRUE, scheme |-> scheme, host |-> None]
        ELSE IF \/ ~parsed.ok
                \/ \E i \in 1..Len(port) : port[i] \notin DigitSet
                \/ Len(port) > 5
                \/ (port # <<>> /\ Decimal(port) > 65535)
        THEN UrlErr
        ELSE [ok |-> TRUE, scheme |-> scheme, host |-> Some(parsed.host)]

is_valid_relay_url(url, allow_localhost) ==
    LET parsed == Url_parse(url)
    IN  IF ~parsed.ok THEN FALSE
        ELSE IF parsed.scheme # SchemeWss THEN FALSE
        ELSE IF parsed.host = None THEN FALSE
        ELSE IF EndsWith(parsed.host[1], <<".", "o", "n", "i", "o", "n">>) THEN FALSE
        ELSE IF /\ parsed.host[1] \in {<<"l", "o", "c", "a", "l", "h", "o", "s", "t">>,
                                        <<"1", "2", "7", ".", "0", ".", "0", ".", "1">>}
                /\ ~allow_localhost
        THEN FALSE
        ELSE TRUE

\* RelayConfig::default, as far as filter_valid_relays reads it
DefaultRelayConfig ==
    [default_relay |-> <<"w", "s", "s", ":", "/", "/", "y", "a", "b", "u", ".", "m", "e">>]

\* filter_valid_relays that returns the valid URLs even when there is none
filter_valid_relays_no_default(relays, config) ==
    SelectSeq(relays, LAMBDA r : is_valid_relay_url(r, FALSE))

filter_valid_relays(relays, config) ==
    LET valid == SelectSeq(relays, LAMBDA r : is_valid_relay_url(r, FALSE))
    IN  IF valid = <<>> THEN <<config.default_relay>> ELSE valid

---------------------------------------------------------------------------
(* State: the arguments of one call, the locals rank_feed goes through and *)
(* what the call returned                                                  *)

VARIABLES
    config,        \* RecommendationEngine.config
    posts,         \* the candidates: a sequence of <<event_id, pubkey, created_at>>
    engagements,   \* HashMap event_id -> EngagementData
    ctx,           \* the read-only sets and maps (see score_post)
    limit,
    now,           \* what the system clock reads during the call
    pc,            \* "start", then "ranked"
    scored,        \* rank_feed: the vector scored
    quota_result,  \* rank_feed: result after the three quota loops
    fill_result,   \* rank_feed: result after the fill step
    result,        \* rank_feed: the returned vector
    prev,          \* what an earlier call of rank_feed computed, None before it
    call,          \* a direct call of one function: its name and arguments
    ret,           \* Option: what the direct call returned
    engine,        \* NuruNuruEngine: the values behind its seven RwLocks
    locks,         \* the RwLocks: who holds each and who waits for it
    tasks,         \* the concurrent callers of the engine and where each stands
    relays,        \* what the relays hold: contact lists, mute lists
    audit          \* which mark_not_interested calls the user state reflects

engine_vars == <<engine, locks, tasks, relays, audit>>

vars == <<config, posts, engagements, ctx, limit, now, pc, scored, quota_result, fill_result, result, prev, call, ret, engine, locks, tasks, relays, audit>>

inputs == <<config, posts, engagements, ctx, limit, now>>

EventIds == {"e1", "e2", "e3"}

Authors == {"a", "b"}

Clock == {200000}

Fresh(t) == t - 1800

HoursAgo(t, h) == t - h * 3600

\* sequences over S of length at most n
SeqUpTo(S, n) == UNION {[1..k -> S] : k \in 0..n}

NeutralCtx ==
    [follow_list |-> {}, second_degree_follows |-> {}, followers |-> {},
     engagement_history |-> DefaultEngagementHistory, profiles |-> EmptyMap,
     muted_pubkeys |-> {}, not_interested_posts |-> {},
     author_scores |-> EmptyMap, user_geohash |-> None,
     author_stats |-> EmptyMap]

MixRatios ==
    {DefaultFeedMixRatio,
     [second_degree |-> R(1, 2), out_of_network |-> R(1, 2), first_degree |-> F(0)],
     [second_degree |-> F(1), out_of_network |-> R(1, 2), first_degree |-> F(1)]}

SomeEngagements ==
    ("e1" :> [DefaultEngagementData EXCEPT !.likes = 1])
    @@ ("e2" :> [DefaultEngagementData EXCEPT !.replies = 1])

\* graph positions and exclusions used with the candidate lists of InitMix
MixContexts ==
    {[NeutralCtx EXCEPT !.follow_list = {"a"}, !.second_degree_follows = {"b"}],
     [NeutralCtx EXCEPT !.follow_list = {"a", "b"}, !.second_degree_follows = {"a"}],
     [NeutralCtx EXCEPT !.second_degree_follows = {"a"}],
     [NeutralCtx EXCEPT !.second_degree_follows = {"a"}, !.muted_pubkeys = {"b"},
                        !.not_interested_posts = {"e2"}]}

\* no direct call of a signal function is under way
NoCall == [fn |-> "none"]

\* no engine has been constructed
NoEngine ==
    /\ engine = None
    /\ locks = EmptyMap
    /\ tasks = EmptyMap
    /\ relays = EmptyMap
    /\ audit = EmptyMap

Locals0 ==
    /\ pc = "start"
    /\ scored = <<>>
    /\ quota_result = <<>>
    /\ fill_result = <<>>
    /\ result = <<>>
    /\ prev = None
    /\ call = NoCall
    /\ ret = None
    /\ NoEngine

\* inputs that exercise the mixing: every candidate list up to MaxPosts,
\* every limit up to MaxLimit, several ratios and graph positions
InitMix ==
    /\ now \in Clock
    /\ posts \in SeqUpTo(EventIds \X Authors \X {HoursAgo(now, 6)}, MaxPosts)
    /\ limit \in 0..MaxLimit
    /\ config \in {[DefaultRecommendationConfig EXCEPT !.feed_mix = m] : m \in MixRatios}
    /\ engagements = SomeEngagements
    /\ ctx \in MixContexts
    /\ Locals0

\* graph position of author "a": unknown, first degree, mutual, second degree
Positions ==
    {[follow_list |-> {}, followers |-> {}, second_degree_follows |-> {}],
     [follow_list |-> {"a"}, followers |-> {}, second_degree_follows |-> {}],
     [follow_list |-> {"a"}, followers |-> {"a"}, second_degree_follows |-> {}],
     [follow_list |-> {}, followers |-> {}, second_degree_follows |-> {"a"}]}

\* inputs that exercise the scoring of one candidate: every combination of
\* its exclusion, engagement, social, quality, personalization and age signals
InitSignals ==
    /\ now \in Clock
    /\ posts \in {<< <<"e1", "a", t>> >> : t \in {Fresh(now), HoursAgo(now, 6), HoursAgo(now, 50)}}
    /\ limit = MaxLimit
    /\ config = DefaultRecommendationConfig
    /\ engagements \in {EmptyMap, SomeEngagements}
    /\ \E p \in Positions,
          mu \in {{}, {"a"}},
          ni \in {{}, {"e1"}},
          as \in {EmptyMap, "a" :> R(7, 10), "a" :> F(0), "a" :> F(-1), "a" :> NaN},
          eh \in {DefaultEngagementHistory,
                  [DefaultEngagementHistory EXCEPT !.replied_authors = ("a" :> 4)]},
          pr \in {EmptyMap, "a" :> [nip05 |-> "a@example.com"]},
          st \in {EmptyMap, "a" :> 10} :
          ctx = [follow_list |-> p.follow_list,
                 second_degree_follows |-> p.second_degree_follows,
                 followers |-> p.followers,
                 engagement_history |-> eh, profiles |-> pr,
                 muted_pubkeys |-> mu, not_interested_posts |-> ni,
                 author_scores |-> as,
                 user_geohash |-> Some(<<"x", "n", "7", "6", "u">>),
                 author_stats |-> st]
    /\ Locals0

\* the scenario of the specification: limit 10, default ratios, 3 second-degree,
\* 10 out-of-network and 1 first-degree candidate
ScenarioPosts ==
    [i \in 1..14 |->
        <<<<"p01", "p02", "p03", "p04", "p05", "p06", "p07", "p08", "p09", "p10",
            "p11", "p12", "p13", "p14">>[i],
          IF i <= 3 THEN "s" ELSE IF i <= 13 THEN "o" ELSE "f",
          HoursAgo(200000, 6)>>]

ScenarioEngagements ==
    [e \in {"p02", "p05", "p06", "p09", "p12"} |->
        [DefaultEngagementData EXCEPT !.likes = IF e \in {"p05", "p12"} THEN 2 ELSE 1]]

InitScenario ==
    /\ now \in Clock
    /\ posts = ScenarioPosts
    /\ limit = 10
    /\ config = DefaultRecommendationConfig
    /\ engagements = ScenarioEngagements
    /\ ctx = [NeutralCtx EXCEPT !.follow_list = {"f"}, !.second_degree_follows = {"s"}]
    /\ Locals0

Init == InitMix \/ InitSignals \/ InitScenario

\* one call of rank_feed
RankFeed ==
    /\ pc = "start"
    /\ scored' = ScoreAll(config, posts, engagements, ctx, now)
    /\ quota_result' = MixCategories(config, scored', ctx, limit)
    /\ fill_result' = FillRemaining(quota_result', scored', limit)
    /\ result' = FinalSort(fill_result', limit)
    /\ pc' = "ranked"
    /\ UNCHANGED <<inputs, prev, call, ret, engine_vars>>

Next == RankFeed

Spec == Init /\ [][Next]_vars

---------------------------------------------------------------------------
(* Two calls of rank_feed with the same candidates: between them the system *)
(* clock advances, or the caller passes another user_geohash                *)

\* seconds the system clock advances between two calls: 1 hour, 48 hours
ClockSteps == {3600, 172800}

Geohashes == {None, Some(<<"x", "n", "7", "6", "u">>), Some(<<"u", "0", "9", "t", "v">>)}

RepeatContexts ==
    {[NeutralCtx EXCEPT !.user_geohash = Some(<<"x", "n", "7", "6", "u">>),
                        !.profiles = ("a" :> [nip05 |-> ""])],
     [NeutralCtx EXCEPT !.second_degree_follows = {"a"},
                        !.profiles = ("a" :> [nip05 |-> "a@example.com"])
                                     @@ ("b" :> [nip05 |-> ""])]}

InitRepeat ==
    /\ now \in Clock
    /\ posts \in SeqUpTo({"e1", "e3"} \X Authors \X {Fresh(now), HoursAgo(now, 18)},
                         MaxRepeatPosts)
    /\ limit \in 1..MaxRepeatPosts
    /\ config = DefaultRecommendationConfig
    /\ engagements = SomeEngagements
    /\ ctx \in RepeatContexts
    /\ Locals0

\* what the first call computed, kept for the comparison
Earlier(change) == Some([change |-> change, scored |-> scored, result |-> result])

\* the system clock advances and rank_feed is called again with the same
\* arguments
Tick ==
    /\ pc = "ranked"
    /\ prev = None
    /\ \E d \in ClockSteps : now' = now + d
    /\ prev' = Earlier("clock")
    /\ pc' = "start"
    /\ scored' = <<>>
    /\ quota_result' = <<>>
    /\ fill_result' = <<>>
    /\ result' = <<>>
    /\ UNCHANGED <<config, posts, engagements, ctx, limit, call, ret, engine_vars>>

\* rank_feed is called again with another user_geohash, every other argument
\* and the clock reading being the same
Relocate ==
    /\ pc = "ranked"
    /\ prev = None
    /\ \E g \in Geohashes \ {ctx.user_geohash} : ctx' = [ctx EXCEPT !.user_geohash = g]
    /\ prev' = Earlier("location")
    /\ pc' = "start"
    /\ scored' = <<>>
    /\ quota_result' = <<>>
    /\ fill_result' = <<>>
    /\ result' = <<>>
    /\ UNCHANGED <<config, posts, engagements, limit, now, call, ret, engine_vars>>

NextRepeat == RankFeed \/ Tick \/ Relocate

SpecRepeat == InitRepeat /\ [][NextRepeat]_vars

---------------------------------------------------------------------------
(* Direct calls of the signal calculators: the arguments of one call are   *)
(* in call, self.config in config, and ret holds what the call returned    *)

\* a configuration that differs from the default in the bookmark weight only
BookmarkConfig ==
    [DefaultRecommendationConfig EXCEPT !.engagement_weights.bookmark = F(0)]

\* a configuration other than the default in every signal
OtherConfig ==
    [engagement_weights |->
        [zap |-> F(0), reply |-> F(1), repost |-> F(0), like |-> F(2),
         quote |-> F(3), bookmark |-> F(1000)],
     social_boost |->
        [second_degree |-> F(4), mutual_follow |-> F(5),
         high_engagement_author |-> F(3), first_degree |-> F(2),
         unknown |-> R(1, 2)],
     time_decay |->
        [half_life_hours |-> F(12), max_age_hours |-> F(24),
         freshness_boost |-> F(2), min_score |-> R(1, 5)],
     feed_mix |-> DefaultFeedMixRatio]

CallConfigs == {DefaultRecommendationConfig, BookmarkConfig, OtherConfig}

\* ages in seconds: around the boundaries of 1 hour, 24 and 48 hours, at the
\* half-lives, and a created_at that lies after the clock reading
AgesSecs ==
    {0, 1800, 3599, 3600, 3601, 21600, 43200, 86400, 86401, 172800, 172801, 180000}

TimeDecayCalls ==
    {[fn |-> "time_decay", created_at |-> c] :
        c \in {200000 - a : a \in AgesSecs} \cup {200100}}

EngagementScoreCalls ==
    {[fn |-> "engagement_score", data |-> d] :
        d \in [likes : {0, 1, 10}, reposts : {0, 1}, replies : {0, 2},
               zaps : {0, 1}, quotes : {0, 3}]}

\* HashMap<String, u64> counters of the engagement history
Histories ==
    [liked_authors : {EmptyMap, "a" :> 1, "a" :> 4, "a" :> 5, "a" :> 10, "b" :> 10},
     reposted_authors : {EmptyMap, "a" :> 2, "a" :> 5},
     replied_authors : {EmptyMap, "a" :> 1, "a" :> 3}]

SocialBoostCalls ==
    {[fn |-> "social_boost", author_pubkey |-> "a", follow_list |-> fl,
      second_degree |-> sd, followers |-> fo, engagement_history |-> h] :
        fl \in {{}, {"a", "b"}}, sd \in {{}, {"a"}}, fo \in {{}, {"a"}}, h \in Histories}

\* location strings: equal, sharing 4, 3, 2, 1 and 0 leading characters with
\* "xn76u", longer and shorter ones, the empty string, and one that shares
\* characters but not the leading ones
GeohashStrings ==
    {<<"x", "n", "7", "6", "u">>, <<"x", "n", "7", "6", "v">>, <<"x", "n", "7", "a", "b">>,
     <<"x", "n", "z", "z", "z">>, <<"x", "z", "z", "z", "z">>, <<"z", "z", "z", "z", "z">>,
     <<"x", "n", "7", "6", "u", "g">>, <<"x", "n">>, <<>>, <<"n", "7", "6", "u">>}

GeohashBoostCalls ==
    {[fn |-> "geohash_boost", user_geohash |-> u, author_geohash |-> a] :
        u \in {None} \cup {Some(g) : g \in GeohashStrings},
        a \in {None} \cup {Some(g) : g \in GeohashStrings}}

\* the viewer at the points of ViewerPoints and with a NaN latitude; counts
\* up to MaxCount and around the size of the table
FindNearestRelaysCalls ==
    {[fn |-> "find_nearest_relays", user_lat |-> v[1], user_lon |-> v[2], count |-> c] :
        v \in {ViewerPoints[i] : i \in 1..Len(ViewerPoints)}
              \cup {<<NaN, ViewerPoints[1][2]>>},
        c \in (0..MaxCount) \cup {Len(GPS_RELAY_DATABASE) - 1, Len(GPS_RELAY_DATABASE),
                                 Len(GPS_RELAY_DATABASE) + 1}}

CallProfiles == {None, Some([nip05 |-> ""]), Some([nip05 |-> "a@example.com"])}

FollowerCounts == {0, 1, 5, 10, 100, 1000, 10000, 99999, 100000, 1000000}

AuthorQualityCalls ==
    {[fn |-> "author_quality", profile |-> p, follower_count |-> n] :
        p \in CallProfiles, n \in FollowerCounts}

Pubkeys == {"a", "b", "c"}

\* follow lists of the accounts "a" and "b", each absent or of at most two keys
FollowsOfFollows ==
    UNION {[K -> SeqUpTo(Pubkeys, 2)] : K \in SUBSET {"a", "b"}}

Extract2ndDegreeCalls ==
    {[fn |-> "extract_2nd_degree_network", my_follows |-> m, follows_of_follows |-> f] :
        m \in SUBSET Pubkeys, f \in FollowsOfFollows}

\* wss://relay.damus.io
UrlDamus ==
    <<"w", "s", "s", ":", "/", "/", "r", "e", "l", "a", "y", ".", "d", "a", "m", "u", "s", ".", "i", "o">>

\* ws://relay.damus.io
UrlInsecure ==
    <<"w", "s", ":", "/", "/", "r", "e", "l", "a", "y", ".", "d", "a", "m", "u", "s", ".", "i", "o">>

\* wss://relay.onion
UrlOnion ==
    <<"w", "s", "s", ":", "/", "/", "r", "e", "l", "a", "y", ".", "o", "n", "i", "o", "n">>

\* wss://localhost
UrlLocalhost ==
    <<"w", "s", "s", ":", "/", "/", "l", "o", "c", "a", "l", "h", "o", "s", "t">>

\* wss://127.0.0.1
UrlLoopback ==
    <<"w", "s", "s", ":", "/", "/", "1", "2", "7", ".", "0", ".", "0", ".", "1">>

\* WSS://LocalHost:7777/x
UrlUpperCase ==
    <<"W", "S", "S", ":", "/", "/", "L", "o", "c", "a", "l", "H", "o", "s", "t", ":", "7", "7", "7", "7", "/", "x">>

\* wss://u@127.1/
UrlShortLoopback ==
    <<"w", "s", "s", ":", "/", "/", "u", "@", "1", "2", "7", ".", "1", "/">>

\* relay.damus.io
UrlNoScheme ==
    <<"r", "e", "l", "a", "y", ".", "d", "a", "m", "u", "s", ".", "i", "o">>

\* wss://
UrlNoHost ==
    <<"w", "s", "s", ":", "/", "/">>

\* wss://yabu.me/a.onion?localhost
UrlPath ==
    <<"w", "s", "s", ":", "/", "/", "y", "a", "b", "u", ".", "m", "e", "/", "a", ".", "o", "n", "i", "o", "n", "?", "l", "o", "c", "a", "l", "h", "o", "s", "t">>

\* wss://onion
UrlOnionName ==
    <<"w", "s", "s", ":", "/", "/", "o", "n", "i", "o", "n">>


SampleUrls ==
    {UrlDamus, UrlInsecure, UrlOnion, UrlLocalhost, UrlLoopback, UrlUpperCase,
     UrlShortLoopback, UrlNoScheme, UrlNoHost, UrlPath, UrlOnionName}

FilterValidRelaysCalls ==
    {[fn |-> "filter_valid_relays", relays |-> r, config |-> DefaultRelayConfig] :
        r \in SeqUpTo(SampleUrls, MaxRelays)}

Calls ==
    TimeDecayCalls \cup EngagementScoreCalls \cup SocialBoostCalls \cup GeohashBoostCalls
    \cup FindNearestRelaysCalls \cup AuthorQualityCalls \cup Extract2ndDegreeCalls
    \cup FilterValidRelaysCalls

InitCalls ==
    /\ now \in Clock
    /\ call \in Calls
    /\ config \in IF call.fn \in {"find_nearest_relays", "author_quality",
                                 "extract_2nd_degree_network", "filter_valid_relays"}
                  THEN {DefaultRecommendationConfig} ELSE CallConfigs
    /\ ret = None
    /\ posts = <<>>
    /\ engagements = EmptyMap
    /\ ctx = NeutralCtx
    /\ limit = 0
    /\ pc = "call"
    /\ scored = <<>>
    /\ quota_result = <<>>
    /\ fill_result = <<>>
    /\ result = <<>>
    /\ prev = None
    /\ NoEngine

\* the call returns v
Returns(v) ==
    /\ ret = None
    /\ ret' = Some(v)
    /\ UNCHANGED <<config, posts, engagements, ctx, limit, now, pc, scored,
                   quota_result, fill_result, result, prev, call, engine_vars>>

TimeDecay ==
    /\ call.fn = "time_decay"
    /\ Returns(time_decay(config, call.created_at, now))

EngagementScore ==
    /\ call.fn = "engagement_score"
    /\ Returns(engagement_score(config, call.data))

SocialBoost ==
    /\ call.fn = "social_boost"
    /\ Returns(social_boost(config, call.author_pubkey, call.follow_list,
                            call.second_degree, call.followers,
                            call.engagement_history))

GeohashBoost ==
    /\ call.fn = "geohash_boost"
    /\ Returns(geohash_boost(call.user_geohash, call.author_geohash))

FindNearestRelays ==
    /\ call.fn = "find_nearest_relays"
    /\ Returns(find_nearest_relays(call.user_lat, call.user_lon, call.count))

AuthorQuality ==
    /\ call.fn = "author_quality"
    /\ Returns(author_quality_f64(call.profile, call.follower_count))

Extract2ndDegreeNetwork ==
    /\ call.fn = "extract_2nd_degree_network"
    /\ Returns(extract_2nd_degree_network(call.my_follows, call.follows_of_follows))

FilterValidRelays ==
    /\ call.fn = "filter_valid_relays"
    /\ Returns(filter_valid_relays(call.relays, call.config))

NextCalls ==
    \/ FilterValidRelays
    \/ Extract2ndDegreeNetwork
    \/ TimeDecay
    \/ EngagementScore
    \/ SocialBoost
    \/ GeohashBoost
    \/ FindNearestRelays
    \/ AuthorQuality

SpecCalls == InitCalls /\ [][NextCalls]_vars

---------------------------------------------------------------------------
(* The engine (engine.rs): one NuruNuruEngine behind an Arc, its methods   *)
(* called by concurrent tasks.  A step of a task is one operation on a     *)
(* lock (the request, or the work done under the lock together with the    *)
(* release) or one exchange with the relays.                               *)

Tasks == 1..3

\* the pubkeys that log in, and the key the client signs what it publishes with
Users == {"u1", "u2"}

Signer == "u1"

LockNames ==
    {"user_pubkey", "follow_list", "muted_pubkeys", "second_degree_follows",
     "engagement_history", "not_interested_posts", "author_scores"}

\* a constructor that starts with a second-degree network
EngineNew_second_degree ==
    [user_pubkey |-> None, follow_list |-> {}, muted_pubkeys |-> {},
     second_degree_follows |-> {"b"}, engagement_history |-> DefaultEngagementHistory,
     not_interested_posts |-> {}, author_scores |-> EmptyMap]

\* the user state NuruNuruEngine::new constructs
EngineNew ==
    [user_pubkey |-> None, follow_list |-> {}, muted_pubkeys |-> {},
     second_degree_follows |-> {}, engagement_history |-> DefaultEngagementHistory,
     not_interested_posts |-> {}, author_scores |-> EmptyMap]

\* tokio::sync::RwLock: any number of readers or one writer; requests that
\* cannot enter at once wait in a queue and are served in the order they came
Unlocked == [readers |-> {}, writer |-> None, queue |-> <<>>]

CanEnter(lk, mode) ==
    IF mode = "w" THEN lk.readers = {} /\ lk.writer = None ELSE lk.writer = None

Enter(lk, t, mode) ==
    IF mode = "w" THEN [lk EXCEPT !.writer = Some(t)]
    ELSE [lk EXCEPT !.readers = @ \cup {t}]

\* read().await and write().await up to the point where the caller is let in
\* or suspended
Request(lk, t, mode) ==
    IF lk.queue = <<>> /\ CanEnter(lk, mode) THEN Enter(lk, t, mode)
    ELSE [lk EXCEPT !.queue = Append(@, <<t, mode>>)]

\* the permits a release frees go to the head of the queue while it can enter
RECURSIVE Grant(_)
Grant(lk) ==
    IF lk.queue # <<>> /\ CanEnter(lk, Head(lk.queue)[2])
    THEN Grant(Enter([lk EXCEPT !.queue = Tail(@)], Head(lk.queue)[1], Head(lk.queue)[2]))
    ELSE lk

\* the guard of t is dropped
Release(lk, t) ==
    Grant([lk EXCEPT !.readers = @ \ {t},
                     !.writer = IF @ = Some(t) THEN None ELSE @])

Holds(lk, t) == t \in lk.readers \/ lk.writer = Some(t)

\* results
Ok(v) == [ok |-> TRUE, val |-> v]

Err(e) == [ok |-> FALSE, err |-> e]

Unit == "()"

NoLocals == [none |-> TRUE]

\* a task that is between two calls
Idle(t) == tasks[t].pc = "idle"

\* the calls of fn that task t may make next
Callable(t, fn) ==
    IF Idle(t) /\ tasks[t].program # <<>>
    THEN {c \in Head(tasks[t].program) : c.fn = fn}
    ELSE {}

\* task t is inside a call of fn, at the point named point
At(t, fn, point) == tasks[t].call.fn = fn /\ tasks[t].pc = point

\* task t enters call c and goes to its first suspension point
Started(t, c, point, loc) ==
    [program |-> Tail(tasks[t].program), pc |-> point, call |-> c, loc |-> loc,
     last |-> None]

Moved(t, point, loc) == [tasks[t] EXCEPT !.pc = point, !.loc = loc]

\* the call of task t returns r
Finished(t, r) ==
    [program |-> tasks[t].program, pc |-> "idle", call |-> NoCall, loc |-> NoLocals,
     last |-> Some([call |-> tasks[t].call, ret |-> r, loc |-> tasks[t].loc])]

\* the variables of the ranking that an engine step leaves alone
rank_vars == <<config, posts, engagements, ctx, limit, now, pc, scored, quota_result, fill_result, result, prev, call, ret>>

\* (current * 0.7).max(0.1), current being the author's entry or 1.0
lowered_score_no_floor(author_scores, author_pubkey) ==
    Mul(GetOr(author_scores, author_pubkey, F(1)), R(7, 10))

lowered_score(author_scores, author_pubkey) ==
    FMax(Mul(GetOr(author_scores, author_pubkey, F(1)), R(7, 10)), R(1, 10))

\* the two write locks of mark_not_interested in the order it takes them; the
\* first is still held while the second is awaited
MarkOrder_scores_first == <<"author_scores", "not_interested_posts">>

MarkOrder == <<"not_interested_posts", "author_scores">>

\* the not-interested set with one more event
Marked_nothing(not_interested_posts, event_id) == not_interested_posts

Marked(not_interested_posts, event_id) == not_interested_posts \cup {event_id}

\* mark_not_interested(event_id, author_pubkey), engine.rs:665-673
MarkNotInterested(t) ==
    /\ \/ \E c \in Callable(t, "mark_not_interested") :
             /\ locks' = [locks EXCEPT ![MarkOrder[1]] = Request(@, t, "w")]
             /\ tasks' = [tasks EXCEPT ![t] = Started(t, c, "first", NoLocals)]
             /\ UNCHANGED <<engine, audit>>
       \/ /\ At(t, "mark_not_interested", "first")
          /\ Holds(locks[MarkOrder[1]], t)
          /\ engine' = [engine EXCEPT !.not_interested_posts = Marked(@, tasks[t].call.event_id)]
          /\ locks' = [locks EXCEPT ![MarkOrder[2]] = Request(@, t, "w")]
          /\ tasks' = [tasks EXCEPT ![t] = Moved(t, "second", NoLocals)]
          /\ UNCHANGED audit
       \/ /\ At(t, "mark_not_interested", "second")
          /\ Holds(locks[MarkOrder[2]], t)
          /\ engine' = [engine EXCEPT !.author_scores =
                           (tasks[t].call.author_pubkey
                               :> lowered_score(@, tasks[t].call.author_pubkey)) @@ @]
          /\ locks' = [locks EXCEPT !["author_scores"] = Release(@, t),
                                    !["not_interested_posts"] = Release(@, t)]
          /\ audit' = [audit EXCEPT !.marked = @ \cup {tasks[t].call.event_id},
                                    !.lowered = @ \cup {<<tasks[t].call.event_id,
                                                          tasks[t].call.author_pubkey>>}]
          /\ tasks' = [tasks EXCEPT ![t] = Finished(t, Unit)]
    /\ UNCHANGED <<relays, rank_vars>>

\* the counter of an author in one map of the engagement history, raised by one
Counted(counters, author_pubkey) ==
    (author_pubkey :> GetOr(counters, author_pubkey, 0) + 1) @@ counters

\* record_engagement(action, author_pubkey), engine.rs:676-699
RecordEngagement(t) ==
    /\ \/ \E c \in Callable(t, "record_engagement") :
             /\ locks' = [locks EXCEPT !["engagement_history"] = Request(@, t, "w")]
             /\ tasks' = [tasks EXCEPT ![t] = Started(t, c, "engagement_history", NoLocals)]
             /\ UNCHANGED engine
       \/ /\ At(t, "record_engagement", "engagement_history")
          /\ Holds(locks["engagement_history"], t)
          /\ LET a == tasks[t].call.author_pubkey
                 h == engine.engagement_history
             IN  engine' = [engine EXCEPT !.engagement_history =
                    IF tasks[t].call.action = "like"
                    THEN [h EXCEPT !.liked_authors = Counted(@, a)]
                    ELSE IF tasks[t].call.action = "repost"
                    THEN [h EXCEPT !.reposted_authors = Counted(@, a)]
                    ELSE IF tasks[t].call.action = "reply"
                    THEN [h EXCEPT !.replied_authors = Counted(@, a)]
                    ELSE h]
          /\ locks' = [locks EXCEPT !["engagement_history"] = Release(@, t)]
          /\ tasks' = [tasks EXCEPT ![t] = Finished(t, Unit)]
    /\ UNCHANGED <<relays, audit, rank_vars>>

\* the order in which load_user_state and export_user_state visit the locks
StateOrder ==
    <<"follow_list", "muted_pubkeys", "engagement_history", "not_interested_posts",
      "author_scores">>

\* a running get_recommended_feed no longer has to exclude what was marked
\* before the not-interested set was replaced
Forgiven(task) ==
    IF task.call.fn = "get_recommended_feed"
    THEN [task EXCEPT !.loc.must_exclude = {}]
    ELSE task

\* load_user_state(...), engine.rs:702-715: five statements, each taking one
\* write lock, assigning and releasing
LoadUserState(t) ==
    /\ \/ \E c \in Callable(t, "load_user_state") :
             /\ locks' = [locks EXCEPT ![StateOrder[1]] = Request(@, t, "w")]
             /\ tasks' = [tasks EXCEPT ![t] = Started(t, c, "write", [k |-> 1])]
             /\ UNCHANGED <<engine, audit>>
       \/ /\ At(t, "load_user_state", "request")
          /\ locks' = [locks EXCEPT ![StateOrder[tasks[t].loc.k]] = Request(@, t, "w")]
          /\ tasks' = [tasks EXCEPT ![t] = Moved(t, "write", tasks[t].loc)]
          /\ UNCHANGED <<engine, audit>>
       \/ /\ At(t, "load_user_state", "write")
          /\ LET k     == tasks[t].loc.k
                 field == StateOrder[k]
             IN  /\ Holds(locks[field], t)
                 /\ engine' = [engine EXCEPT ![field] = tasks[t].call[field]]
                 /\ locks' = [locks EXCEPT ![field] = Release(@, t)]
                 /\ audit' =
                       IF field = "not_interested_posts"
                       THEN [audit EXCEPT !.marked = {}, !.lowered = {}]
                       ELSE IF field = "author_scores"
                       THEN [audit EXCEPT !.lowered = {}, !.from_marks = FALSE]
                       ELSE audit
                 /\ tasks' =
                       [u \in Tasks |->
                           IF u = t
                           THEN IF k = Len(StateOrder) THEN Finished(t, Unit)
                                ELSE Moved(t, "request", [k |-> k + 1])
                           ELSE IF field = "not_interested_posts" THEN Forgiven(tasks[u])
                           ELSE tasks[u]]
    /\ UNCHANGED <<relays, rank_vars>>

\* export_user_state(), engine.rs:718-734: the five read guards are
\* temporaries of one tuple expression, so each is held until the tuple is built
ExportUserState(t) ==
    /\ \/ \E c \in Callable(t, "export_user_state") :
             /\ locks' = [locks EXCEPT ![StateOrder[1]] = Request(@, t, "r")]
             /\ tasks' = [tasks EXCEPT ![t] = Started(t, c, "read", [k |-> 1, state |-> <<>>])]
       \/ /\ At(t, "export_user_state", "read")
          /\ LET k     == tasks[t].loc.k
                 field == StateOrder[k]
                 state == Append(tasks[t].loc.state, engine[field])
             IN  /\ Holds(locks[field], t)
                 /\ IF k < Len(StateOrder)
                    THEN /\ locks' = [locks EXCEPT ![StateOrder[k + 1]] = Request(@, t, "r")]
                         /\ tasks' = [tasks EXCEPT ![t] =
                                         Moved(t, "read", [k |-> k + 1, state |-> state])]
                    ELSE /\ locks' = [l \in LockNames |->
                                         IF \E i \in 1..Len(StateOrder) : StateOrder[i] = l
                                         THEN Release(locks[l], t) ELSE locks[l]]
                         /\ tasks' = [tasks EXCEPT ![t] = Finished(t, state)]
    /\ UNCHANGED <<engine, relays, audit, rank_vars>>

\* what a fetch from the relays can come back with
FetchOutcomes(v) == {Ok(v), Err("relay")}

\* login(pubkey), engine.rs:123-145
Login(t) ==
    /\ \/ \E c \in Callable(t, "login") :
             /\ locks' = [locks EXCEPT !["user_pubkey"] = Request(@, t, "w")]
             /\ tasks' = [tasks EXCEPT ![t] = Started(t, c, "user_pubkey", NoLocals)]
             /\ UNCHANGED engine
       \/ /\ At(t, "login", "user_pubkey")
          /\ Holds(locks["user_pubkey"], t)
          /\ engine' = [engine EXCEPT !.user_pubkey = Some(tasks[t].call.pubkey)]
          /\ locks' = [locks EXCEPT !["user_pubkey"] = Release(@, t)]
          /\ tasks' = [tasks EXCEPT ![t] = Moved(t, "fetch", NoLocals)]
       \/ /\ At(t, "login", "fetch")
          /\ \E follows_result \in FetchOutcomes(relays.contacts[tasks[t].call.pubkey]),
                mutes_result \in FetchOutcomes(relays.mutes[tasks[t].call.pubkey]) :
                tasks' = [tasks EXCEPT ![t] =
                             Moved(t, "follows_result",
                                   [follows_result |-> follows_result,
                                    mutes_result |-> mutes_result])]
          /\ UNCHANGED <<engine, locks>>
       \/ /\ At(t, "login", "follows_result")
          /\ IF tasks[t].loc.follows_result.ok
             THEN /\ locks' = [locks EXCEPT !["follow_list"] = Request(@, t, "w")]
                  /\ tasks' = [tasks EXCEPT ![t] = Moved(t, "follow_list", tasks[t].loc)]
             ELSE /\ tasks' = [tasks EXCEPT ![t] = Moved(t, "mutes_result", tasks[t].loc)]
                  /\ UNCHANGED locks
          /\ UNCHANGED engine
       \/ /\ At(t, "login", "follow_list")
          /\ Holds(locks["follow_list"], t)
          /\ engine' = [engine EXCEPT !.follow_list = tasks[t].loc.follows_result.val]
          /\ locks' = [locks EXCEPT !["follow_list"] = Release(@, t)]
          /\ tasks' = [tasks EXCEPT ![t] = Moved(t, "mutes_result", tasks[t].loc)]
       \/ /\ At(t, "login", "mutes_result")
          /\ IF tasks[t].loc.mutes_result.ok
             THEN /\ locks' = [locks EXCEPT !["muted_pubkeys"] = Request(@, t, "w")]
                  /\ tasks' = [tasks EXCEPT ![t] = Moved(t, "muted_pubkeys", tasks[t].loc)]
             ELSE /\ tasks' = [tasks EXCEPT ![t] = Finished(t, Ok(Unit))]
                  /\ UNCHANGED locks
          /\ UNCHANGED engine
       \/ /\ At(t, "login", "muted_pubkeys")
          /\ Holds(locks["muted_pubkeys"], t)
          /\ engine' = [engine EXCEPT !.muted_pubkeys = tasks[t].loc.mutes_result.val]
          /\ locks' = [locks EXCEPT !["muted_pubkeys"] = Release(@, t)]
          /\ tasks' = [tasks EXCEPT ![t] = Finished(t, Ok(Unit))]
    /\ UNCHANGED <<relays, audit, rank_vars>>

\* the part follow_user and unfollow_user share: current_pubkey() and
\* fetch_follow_list, engine.rs:253-258 and 287-292
CurrentFollowList(t, fn) ==
    \/ \E c \in Callable(t, fn) :
          /\ locks' = [locks EXCEPT !["user_pubkey"] = Request(@, t, "r")]
          /\ tasks' = [tasks EXCEPT ![t] = Started(t, c, "user_pubkey", NoLocals)]
          /\ UNCHANGED <<engine, relays>>
    \/ /\ At(t, fn, "user_pubkey")
       /\ Holds(locks["user_pubkey"], t)
       /\ locks' = [locks EXCEPT !["user_pubkey"] = Release(@, t)]
       /\ tasks' = [tasks EXCEPT ![t] =
                       IF engine.user_pubkey = None
                       THEN Finished(t, Err("NoSigningMethod"))
                       ELSE Moved(t, "fetch", [pubkey |-> engine.user_pubkey[1]])]
       /\ UNCHANGED <<engine, relays>>

\* the last steps of both: the publish and the update of the local list
PublishAndStore(t, fn, contacts, follow_list) ==
    \/ /\ At(t, fn, "publish")
       /\ \/ /\ relays' = [relays EXCEPT !.contacts[Signer] = contacts]
             /\ tasks' = [tasks EXCEPT ![t] = Moved(t, "published", tasks[t].loc)]
          \/ /\ tasks' = [tasks EXCEPT ![t] = Finished(t, Err("relay"))]
             /\ UNCHANGED relays
       /\ UNCHANGED <<engine, locks>>
    \/ /\ At(t, fn, "published")
       /\ locks' = [locks EXCEPT !["follow_list"] = Request(@, t, "w")]
       /\ tasks' = [tasks EXCEPT ![t] = Moved(t, "follow_list", tasks[t].loc)]
       /\ UNCHANGED <<engine, relays>>
    \/ /\ At(t, fn, "follow_list")
       /\ Holds(locks["follow_list"], t)
       /\ engine' = [engine EXCEPT !.follow_list = follow_list]
       /\ locks' = [locks EXCEPT !["follow_list"] = Release(@, t)]
       /\ tasks' = [tasks EXCEPT ![t] = Finished(t, Ok(Unit))]
       /\ UNCHANGED relays

\* follow_user once fetch_follow_list has returned, without the test for a
\* target that is followed already
Fetched_unchecked(t, current) ==
    IF ~current.ok THEN Finished(t, current)
    ELSE Moved(t, "publish", [contacts |-> current.val \cup {tasks[t].call.target_pubkey}])

\* follow_user once fetch_follow_list has returned, engine.rs:258-270
Fetched(t, current) ==
    IF ~current.ok THEN Finished(t, current)
    ELSE IF tasks[t].call.target_pubkey \in current.val
    THEN Finished(t, Err("AlreadyFollowing"))
    ELSE Moved(t, "publish", [contacts |-> current.val \cup {tasks[t].call.target_pubkey}])

\* follow_user(target_pubkey), engine.rs:249-280
FollowUser(t) ==
    /\ \/ CurrentFollowList(t, "follow_user")
       \/ /\ At(t, "follow_user", "fetch")
          /\ \E current \in FetchOutcomes(relays.contacts[tasks[t].loc.pubkey]) :
                tasks' = [tasks EXCEPT ![t] = Fetched(t, current)]
          /\ UNCHANGED <<engine, locks, relays>>
       \/ PublishAndStore(t, "follow_user", tasks[t].loc.contacts,
                          engine.follow_list \cup {tasks[t].call.target_pubkey})
    /\ UNCHANGED <<audit, rank_vars>>

\* unfollow_user(target_pubkey), engine.rs:283-310
UnfollowUser(t) ==
    /\ \/ CurrentFollowList(t, "unfollow_user")
       \/ /\ At(t, "unfollow_user", "fetch")
          /\ \E current \in FetchOutcomes(relays.contacts[tasks[t].loc.pubkey]) :
                tasks' = [tasks EXCEPT ![t] =
                    IF ~current.ok THEN Finished(t, current)
                    ELSE Moved(t, "publish",
                               [contacts |-> current.val \ {tasks[t].call.target_pubkey}])]
          /\ UNCHANGED <<engine, locks, relays>>
       \/ PublishAndStore(t, "unfollow_user", tasks[t].loc.contacts,
                          engine.follow_list \ {tasks[t].call.target_pubkey})
    /\ UNCHANGED <<audit, rank_vars>>

\* the order of the six snapshot reads of get_recommended_feed
SnapshotOrder ==
    <<"follow_list", "muted_pubkeys", "second_degree_follows", "engagement_history",
      "not_interested_posts", "author_scores">>

\* all_events.sort_by(|a, b| b.created_at.cmp(&a.created_at)): stable, newest first
RECURSIVE SortNewestFirst(_)
SortNewestFirst(events) ==
    IF events = <<>> THEN <<>>
    ELSE LET rest == SortNewestFirst(Tail(events))
             e    == Head(events)
             k    == Cardinality({i \in 1..Len(rest) : rest[i][3] > e[3]})
         IN  SubSeq(rest, 1, k) \o <<e>> \o SubSeq(rest, k + 1, Len(rest))

\* fetch_timeline(authors, since, limit), engine.rs:340-368, when both
\* fetches succeed: the notes of the authors (of anyone when authors is None)
\* not older than since
fetch_timeline(events, authors, since, n) ==
    Take(SortNewestFirst(SelectSeq(events,
            LAMBDA e : (authors = None \/ e[2] \in authors[1]) /\ e[3] >= since)), n)

\* since_hours_ago(48)
Since(t) == t - 48 * 3600

\* the author filter built from the snapshot, engine.rs:485-500
AuthorPks(snapshot) ==
    IF snapshot.follow_list \cup snapshot.second_degree_follows = {} THEN None
    ELSE Some(snapshot.follow_list \cup snapshot.second_degree_follows)

\* the arguments get_recommended_feed passes to rank_feed, engine.rs:520-534
FeedContext(snapshot) ==
    [follow_list |-> snapshot.follow_list,
     second_degree_follows |-> snapshot.second_degree_follows,
     followers |-> {}, engagement_history |-> snapshot.engagement_history,
     profiles |-> EmptyMap, muted_pubkeys |-> snapshot.muted_pubkeys,
     not_interested_posts |-> snapshot.not_interested_posts,
     author_scores |-> snapshot.author_scores, user_geohash |-> None,
     author_stats |-> EmptyMap]

\* rank_feed as one call
rank_feed(cfg, candidates, engagement_data, context, n, t) ==
    LET all == ScoreAll(cfg, candidates, engagement_data, context, t)
    IN  FinalSort(FillRemaining(MixCategories(cfg, all, context, n), all, n), n)

\* what fetch_engagement_data can return: a fetch that fails counts nothing
EngagementOutcomes(events) ==
    {[id \in {events[i][1] : i \in 1..Len(events)} \cap DOMAIN engagements |->
         engagements[id]],
     EmptyMap}

\* get_recommended_feed(limit), engine.rs:473-537
GetRecommendedFeed(t) ==
    /\ \/ \E c \in Callable(t, "get_recommended_feed") :
             /\ locks' = [locks EXCEPT ![SnapshotOrder[1]] = Request(@, t, "r")]
             /\ tasks' = [tasks EXCEPT ![t] =
                             Started(t, c, "read",
                                     [k |-> 1, snapshot |-> EmptyMap,
                                      must_exclude |-> audit.marked,
                                      lowered_seen |-> {}])]
       \/ /\ At(t, "get_recommended_feed", "request")
          /\ locks' = [locks EXCEPT ![SnapshotOrder[tasks[t].loc.k]] = Request(@, t, "r")]
          /\ tasks' = [tasks EXCEPT ![t] = Moved(t, "read", tasks[t].loc)]
       \/ /\ At(t, "get_recommended_feed", "read")
          /\ LET k     == tasks[t].loc.k
                 field == SnapshotOrder[k]
             IN  /\ Holds(locks[field], t)
                 /\ locks' = [locks EXCEPT ![field] = Release(@, t)]
                 /\ tasks' = [tasks EXCEPT ![t] =
                       Moved(t, IF k = Len(SnapshotOrder) THEN "fetch" ELSE "request",
                             [tasks[t].loc EXCEPT
                                 !.k = k + 1,
                                 !.snapshot = (field :> engine[field]) @@ @,
                                 !.lowered_seen =
                                     IF field = "author_scores" THEN audit.lowered ELSE @])]
       \/ /\ At(t, "get_recommended_feed", "fetch")
          /\ LET snapshot == tasks[t].loc.snapshot
                 events   == fetch_timeline(posts, AuthorPks(snapshot), Since(now),
                                            tasks[t].call.limit * 3)
             IN  \/ tasks' = [tasks EXCEPT ![t] = Finished(t, Err("relay"))]
                 \/ \E data \in EngagementOutcomes(events) :
                       tasks' = [tasks EXCEPT ![t] =
                           Finished(t, Ok(rank_feed(config, events, data,
                                                    FeedContext(snapshot),
                                                    tasks[t].call.limit, now)))]
          /\ UNCHANGED locks
    /\ UNCHANGED <<engine, relays, audit, rank_vars>>

\* the calls the tasks make
MarkCalls ==
    {[fn |-> "mark_not_interested", event_id |-> "e1", author_pubkey |-> "a"],
     [fn |-> "mark_not_interested", event_id |-> "e2", author_pubkey |-> "b"]}

RecordCalls ==
    {[fn |-> "record_engagement", action |-> x, author_pubkey |-> "a"] :
        x \in {"like", "repost", "reply", "zap"}}

LoadCall ==
    [fn |-> "load_user_state", follow_list |-> {"b"}, muted_pubkeys |-> {"c"},
     engagement_history |-> [DefaultEngagementHistory EXCEPT !.liked_authors = "b" :> 5],
     not_interested_posts |-> {"e2"}, author_scores |-> "a" :> F(2)]

ExportCall == [fn |-> "export_user_state"]

LoginCall(pubkey) == [fn |-> "login", pubkey |-> pubkey]

FollowCall(target_pubkey) == [fn |-> "follow_user", target_pubkey |-> target_pubkey]

UnfollowCall(target_pubkey) == [fn |-> "unfollow_user", target_pubkey |-> target_pubkey]

FeedCall(n) == [fn |-> "get_recommended_feed", limit |-> n]

EngineCalls ==
    MarkCalls \cup {c \in RecordCalls : c.action \in {"like", "zap"}}
    \cup {LoadCall, ExportCall, LoginCall("u1"), FollowCall("b"), UnfollowCall("a"),
          FeedCall(2)}

Task(program) ==
    [program |-> program, pc |-> "idle", call |-> NoCall, loc |-> NoLocals,
     last |-> None]

\* one caller marking posts over and over
MarksOnly ==
    [t \in Tasks |-> Task(IF t = 1 THEN [i \in 1..MaxMarks |-> MarkCalls] ELSE <<>>)]

\* any two calls side by side
Pairs == [t \in Tasks |-> Task(IF t = 3 THEN <<>> ELSE <<EngineCalls>>)]

\* a session: a login, a change to the user state, a feed, with one call of
\* another task anywhere in between
Session ==
    [t \in Tasks |->
        Task(IF t = 1
             THEN <<{LoginCall("u1")},
                    {LoginCall("u2"), FollowCall("a"), FollowCall("b"), UnfollowCall("a")}
                    \cup MarkCalls,
                    {FeedCall(2)}>>
             ELSE IF t = 2
             THEN <<RecordCalls \cup MarkCalls
                    \cup {FollowCall("c"), UnfollowCall("a"), LoginCall("u2"), LoadCall,
                          FeedCall(1)}>>
             ELSE <<>>)]

\* the three calls that hold or take several locks, side by side
Three ==
    [t \in Tasks |->
        Task(IF t = 1 THEN <<{ExportCall}>>
             ELSE IF t = 2 THEN <<MarkCalls>> ELSE <<{LoadCall}>>)]

\* the notes the relays hold: two recent ones and one older than 48 hours
RelayEvents(t) ==
    <<<<"e1", "a", HoursAgo(t, 2)>>, <<"e2", "b", HoursAgo(t, 6)>>,
      <<"e3", "c", HoursAgo(t, 60)>>>>

\* the contact lists and mute lists the relays hold
Relays0 ==
    [contacts |-> [u \in Users |-> IF u = "u1" THEN {"a"} ELSE {"b"}],
     mutes |-> [u \in Users |-> IF u = "u1" THEN {} ELSE {"a"}]]

\* a freshly constructed engine and the relays it talks to
EngineStart ==
    /\ now \in Clock
    /\ config = DefaultRecommendationConfig
    /\ posts = RelayEvents(now)
    /\ engagements = SomeEngagements
    /\ ctx = NeutralCtx
    /\ limit = 0
    /\ pc = "engine"
    /\ scored = <<>>
    /\ quota_result = <<>>
    /\ fill_result = <<>>
    /\ result = <<>>
    /\ prev = None
    /\ call = NoCall
    /\ ret = None
    /\ engine = EngineNew
    /\ locks = [l \in LockNames |-> Unlocked]
    /\ relays = Relays0
    /\ audit = [marked |-> {}, lowered |-> {}, from_marks |-> TRUE]

InitEngine ==
    /\ EngineStart
    /\ tasks \in {MarksOnly, Pairs, Session, Three}

\* one step of task t
Step(t) ==
    \/ MarkNotInterested(t)
    \/ RecordEngagement(t)
    \/ LoadUserState(t)
    \/ ExportUserState(t)
    \/ Login(t)
    \/ FollowUser(t)
    \/ UnfollowUser(t)
    \/ GetRecommendedFeed(t)

NextEngine == \E t \in Tasks : Step(t)

SpecEngine == InitEngine /\ [][NextEngine]_vars

\* the runtime polls every task that can make progress: a task that was let
\* into a lock, or whose exchange with the relays has returned, runs on
FairEngine == SpecEngine /\ \A t \in Tasks : WF_vars(Step(t))

---------------------------------------------------------------------------
(* Properties                                                              *)

Ranked == pc = "ranked"

\* the hard-exclusion condition of the data model, on a candidate tuple
Excluded(post) ==
    post[1] \in ctx.not_interested_posts \/ post[2] \in ctx.muted_pubkeys

ExcludedEntry(sp) ==
    sp.event_id \in ctx.not_interested_posts \/ sp.pubkey \in ctx.muted_pubkeys

\* C1: rank_feed never outputs a post whose event_id is in
\* not_interested_posts or whose author is in muted_pubkeys, and score_post
\* returns None for such a post whatever its other signals are: no such post
\* is in the scored vector or in the returned vector.
C1_ExcludedNeverScored ==
    /\ \A i \in 1..Len(posts) :
          Excluded(posts[i]) => ScoreOf(config, posts[i], engagements, ctx, now) = None
    /\ Ranked =>
          /\ \A j \in 1..Len(scored) : ~ExcludedEntry(scored[j])
          /\ \A j \in 1..Len(result) : ~ExcludedEntry(result[j])

\* an excluded candidate with engagement was passed in, next to a candidate
\* that was ranked
C1_Witness ==
    /\ Ranked
    /\ result # <<>>
    /\ \E i \in 1..Len(posts) : Excluded(posts[i]) /\ posts[i][1] \in DOMAIN engagements

\* C2: the vector rank_feed returns has at most limit entries, for every
\* candidate list, ratio and limit.
C2_AtMostLimit == Ranked => Len(result) <= limit

\* the quotas of a ratio summing to more than 1 selected more than limit
\* entries, and the returned vector holds limit entries
C2_Witness ==
    /\ Ranked
    /\ limit > 0
    /\ Len(quota_result) > limit
    /\ Len(result) = limit

\* number of occurrences of v in the sequence s
Occ(s, v) == Cardinality({j \in 1..Len(s) : s[j] = v})

Range(s) == {s[j] : j \in 1..Len(s)}

DistinctIds == \A i, j \in 1..Len(posts) : i # j => posts[i][1] # posts[j][1]

\* C3: no event_id occurs more than once in the vector rank_feed returns,
\* whether or not the candidate sequence repeats an event_id.
C3_NoDuplicateEventId ==
    Ranked => \A i, j \in 1..Len(result) : i # j => result[i].event_id # result[j].event_id

\* C4: the vector rank_feed returns is ordered by score, non-increasing, for
\* entries chosen by a quota and entries chosen by the fill step alike.
C4_SortedByScore ==
    Ranked => \A j \in 1..(Len(result) - 1) : Leq(result[j + 1].score, result[j].score)

\* quota and fill both selected entries, and the fill step left the result
\* out of order
C4_Witness ==
    /\ Ranked
    /\ Len(quota_result) >= 1
    /\ Len(fill_result) > Len(quota_result)
    /\ Len(result) = Len(fill_result)
    /\ \E j \in 1..(Len(fill_result) - 1) : Less(fill_result[j].score, fill_result[j + 1].score)

\* the score of the specification for a candidate that is not excluded: the
\* product of the six factors
Product(post) ==
    LET profile == IF post[2] \in DOMAIN ctx.profiles
                   THEN Some(ctx.profiles[post[2]]) ELSE None
    IN  Mul(Mul(Mul(Mul(Mul(
            engagement_score(config, GetOr(engagements, post[1], DefaultEngagementData)),
            social_boost(config, post[2], ctx.follow_list, ctx.second_degree_follows,
                         ctx.followers, ctx.engagement_history)),
            author_quality(profile, GetOr(ctx.author_stats, post[2], 0))),
            geohash_boost(ctx.user_geohash, None)),
            GetOr(ctx.author_scores, post[2], F(1))),
            time_decay(config, post[3], now))

\* a candidate that is not excluded and whose score is > 0
Survives(post) == ~Excluded(post) /\ Less(F(0), Product(post))

\* C5: for candidates with pairwise distinct event_ids rank_feed returns
\* exactly min(limit, S) entries, S the number of candidates that are not
\* excluded and score > 0, for every ratio.
C5_LimitMet ==
    (Ranked /\ DistinctIds) =>
        Len(result) = Min(limit, Cardinality({i \in 1..Len(posts) : Survives(posts[i])}))

\* the quotas left a shortfall and the fill step met the limit
C5_Witness ==
    /\ Ranked
    /\ DistinctIds
    /\ limit >= 2
    /\ Len(quota_result) < limit
    /\ Len(result) = limit

\* the three categories of the specification, by precedence
CategoryOf(pk) ==
    IF pk \in ctx.second_degree_follows THEN "second-degree"
    ELSE IF pk \in ctx.follow_list THEN "first-degree"
    ELSE "out-of-network"

RatioOf(c) ==
    IF c = "second-degree" THEN config.feed_mix.second_degree
    ELSE IF c = "first-degree" THEN config.feed_mix.first_degree
    ELSE config.feed_mix.out_of_network

\* entries of s in category c, and those with a score of at least t
InCat(s, c) == {j \in 1..Len(s) : CategoryOf(s[j].pubkey) = c}

InCatAtLeast(s, c, t) == {j \in InCat(s, c) : Leq(t, s[j].score)}

\* quota = min(category_size, floor(limit * ratio)), for a ratio >= 0
Quota(c) == Min(Cardinality(InCat(scored, c)), (limit * RatioOf(c).n) \div RatioOf(c).d)

RatiosAtMostOne ==
    /\ \A c \in {"second-degree", "out-of-network", "first-degree"} :
          ~IsNaN(RatioOf(c)) /\ RatioOf(c).n >= 0
    /\ Leq(Add(Add(config.feed_mix.second_degree, config.feed_mix.out_of_network),
               config.feed_mix.first_degree), F(1))

\* C6: with non-negative ratios whose sum is at most 1 the returned vector
\* holds, for each category, at least quota posts of the category, among them
\* the quota highest-scoring ones (for every score t, as many posts of the
\* category scoring at least t as the quota and the category allow), and the
\* final sort and truncation drop no quota-selected post.
C6_CategoryRepresentation ==
    (Ranked /\ RatiosAtMostOne) =>
        /\ \A c \in {"second-degree", "out-of-network", "first-degree"} :
              /\ Cardinality(InCat(quota_result, c)) = Quota(c)
              /\ Cardinality(InCat(result, c)) >= Quota(c)
              /\ \A j \in InCat(scored, c) :
                    Cardinality(InCatAtLeast(result, c, scored[j].score))
                        >= Min(Quota(c), Cardinality(InCatAtLeast(scored, c, scored[j].score)))
        /\ \A v \in Range(quota_result) : Occ(result, v) >= Occ(quota_result, v)

\* a category larger than its quota, whose quota filled the whole limit, so
\* that a post of the category was left out
C6_Witness ==
    /\ Ranked
    /\ RatiosAtMostOne
    /\ Len(quota_result) = limit
    /\ \E c \in {"second-degree", "out-of-network", "first-degree"} :
          /\ 0 < Quota(c)
          /\ Quota(c) < Cardinality(InCat(scored, c))
          /\ \E j \in InCat(scored, c) : scored[j] \notin Range(result)

\* C7: every surviving candidate is in exactly one category: second-degree if
\* its author is in second_degree_follows (also when in follow_list too),
\* otherwise first-degree if in follow_list, otherwise out-of-network.
C7_CategoryPartition ==
    Ranked =>
        /\ cat_2nd(scored, ctx)
              = SelectSeq(scored, LAMBDA sp : sp.pubkey \in ctx.second_degree_follows)
        /\ cat_1st(scored, ctx)
              = SelectSeq(scored, LAMBDA sp : sp.pubkey \notin ctx.second_degree_follows
                                              /\ sp.pubkey \in ctx.follow_list)
        /\ cat_out(scored, ctx)
              = SelectSeq(scored, LAMBDA sp : sp.pubkey \notin ctx.second_degree_follows
                                              /\ sp.pubkey \notin ctx.follow_list)
        /\ Len(cat_2nd(scored, ctx)) + Len(cat_1st(scored, ctx)) + Len(cat_out(scored, ctx))
              = Len(scored)
        /\ \A j \in 1..Len(scored) :
              Cardinality({c \in {"2nd", "1st", "out"} : Category(scored[j], ctx) = c}) = 1

\* a surviving candidate whose author is in both sets
C7_Witness ==
    /\ Ranked
    /\ \E j \in 1..Len(scored) :
          scored[j].pubkey \in ctx.second_degree_follows \cap ctx.follow_list

\* the entries the fill step appended
FillPart == SubSeq(fill_result, Len(quota_result) + 1, Len(fill_result))

\* C8: when the quota selections total k < limit entries, the returned vector
\* is the quota selections plus the (limit - k) highest-scoring surviving
\* candidates not already selected (all of them if fewer remain): no survivor
\* left out of the output scores strictly higher than a fill-selected post.
\* In the scenario (limit 10, default ratios, sizes 3, 10, 1) the quotas are
\* (3, 3, 1), 7 entries, and the fill step adds 3.
C8_QuotaThenFill ==
    /\ (Ranked /\ Len(quota_result) < limit) =>
          /\ SubSeq(fill_result, 1, Len(quota_result)) = quota_result
          /\ \A v \in Range(fill_result) \cup Range(result) :
                Occ(result, v) = Occ(fill_result, v)
          /\ Len(FillPart)
                = Min(limit - Len(quota_result),
                      Cardinality(Ids(scored) \ Ids(quota_result)))
          /\ \A f \in 1..Len(FillPart) :
                /\ FillPart[f] \in Range(scored)
                /\ FillPart[f].event_id \notin Ids(quota_result)
                /\ \A g \in 1..Len(FillPart) :
                      g # f => FillPart[g].event_id # FillPart[f].event_id
                /\ \A j \in 1..Len(scored) :
                      scored[j].event_id \notin Ids(result)
                          => ~Less(FillPart[f].score, scored[j].score)
    /\ (Ranked /\ posts = ScenarioPosts) =>
          /\ target_2nd(config, scored, ctx, limit) = 3
          /\ target_out(config, scored, ctx, limit) = 3
          /\ target_1st(config, scored, ctx, limit) = 1
          /\ Len(quota_result) = 7
          /\ Len(FillPart) = 3
          /\ Len(result) = 10

\* quotas selected some entries, the fill step some more, and a survivor
\* was left out
C8_Witness ==
    /\ Ranked
    /\ 0 < Len(quota_result)
    /\ Len(quota_result) < limit
    /\ Len(FillPart) > 0
    /\ \E j \in 1..Len(scored) : scored[j].event_id \notin Ids(result)

\* C9: rank_feed returns the empty vector when the candidate list is empty
\* and when limit = 0.
C9_EmptyOrZeroLimit ==
    (Ranked /\ (posts = <<>> \/ limit = 0)) => result = <<>>

\* limit 0 with surviving candidates and a ratio above zero
C9_Witness ==
    /\ Ranked
    /\ limit = 0
    /\ scored # <<>>
    /\ Less(F(0), config.feed_mix.second_degree)

\* the entries the specification expects in the scored vector, for the
\* candidates from position i on: a candidate that is not excluded, with the
\* product as its score, kept only if the product is strictly greater than zero
RECURSIVE ExpectedFrom(_)
ExpectedFrom(i) ==
    IF i > Len(posts) THEN <<>>
    ELSE IF Excluded(posts[i]) THEN ExpectedFrom(i + 1)
    ELSE LET p == Product(posts[i])
         IN  IF Less(F(0), p)
             THEN <<[event_id |-> posts[i][1], pubkey |-> posts[i][2],
                     score |-> p, created_at |-> posts[i][3]]>> \o ExpectedFrom(i + 1)
             ELSE ExpectedFrom(i + 1)

\* C10: for a candidate that is not excluded the score is the product
\* engagement * social_boost * author_quality * geo_boost *
\* personalization_modifier * time_decay, kept only if strictly greater than
\* zero; every returned entry has a score > 0 (not zero, negative or NaN);
\* with no counts, profile, stats and modifier the defaults apply, so that
\* the score is social_boost * time_decay.
C10_ScoreIsPositiveProduct ==
    Ranked =>
        /\ scored = ExpectedFrom(1)
        /\ \A j \in 1..Len(result) :
              ~IsNaN(result[j].score) /\ Less(F(0), result[j].score)
        /\ \A j \in 1..Len(scored) :
              (/\ scored[j].event_id \notin DOMAIN engagements
               /\ scored[j].pubkey \notin DOMAIN ctx.profiles
               /\ scored[j].pubkey \notin DOMAIN ctx.author_stats
               /\ scored[j].pubkey \notin DOMAIN ctx.author_scores)
              => scored[j].score
                    = Mul(social_boost(config, scored[j].pubkey, ctx.follow_list,
                                       ctx.second_degree_follows, ctx.followers,
                                       ctx.engagement_history),
                          time_decay(config, scored[j].created_at, now))

\* a candidate that is not excluded was dropped because its product is zero,
\* negative or NaN
C10_Witness ==
    /\ Ranked
    /\ \E i \in 1..Len(posts) :
          /\ ~Excluded(posts[i])
          /\ ~Less(F(0), Product(posts[i]))
          /\ scored = <<>>

\* the second of two calls has returned
RankedAgain(change) == pc = "ranked" /\ prev # None /\ prev[1].change = change

\* C11: two invocations of rank_feed with identical arguments return
\* identical scores and an identical ordered list, whatever the system clock
\* reads when each invocation runs.
C11_SameArgumentsSameResult ==
    RankedAgain("clock") => (scored = prev[1].scored /\ result = prev[1].result)

\* the profile score_post looks up for the author of a candidate
ProfileOf(post) ==
    IF post[2] \in DOMAIN ctx.profiles THEN Some(ctx.profiles[post[2]]) ELSE None

\* C18: in the scoring path the author location resolves to absent, with or
\* without a profile, so the geo factor is 1.0: two calls of rank_feed that
\* differ only in user_geohash return identical scores and an identical
\* ordered list.
C18_ViewerLocationIgnored ==
    /\ \A i \in 1..Len(posts) :
          /\ author_geohash(ProfileOf(posts[i])) = None
          /\ geohash_boost(ctx.user_geohash, author_geohash(ProfileOf(posts[i]))) = F(1)
    /\ RankedAgain("location") => (scored = prev[1].scored /\ result = prev[1].result)

\* the second call was given a location, the first another or none, and an
\* author with a profile is in the returned list
C18_Witness ==
    /\ RankedAgain("location")
    /\ ctx.user_geohash # None
    /\ \E j \in 1..Len(result) : result[j].pubkey \in DOMAIN ctx.profiles

\* the direct call of fn has returned
Returned(fn) == call.fn = fn /\ ret # None

\* age of the post of a time_decay call, in seconds
AgeSecs == IF now > call.created_at THEN now - call.created_at ELSE 0

\* age_hours < h and age_hours > h for a whole or fractional number of hours h
YoungerThan(h) == AgeSecs * h.d < 3600 * h.n

OlderThan(h) == AgeSecs * h.d > 3600 * h.n

\* C12: time_decay returns freshness_boost exactly when age_hours < 1,
\* min_score exactly when age_hours > max_age_hours, and
\* 0.5^(age_hours / half_life_hours) otherwise, the boundaries age_hours = 1
\* and age_hours = max_age_hours included; with the defaults 0.5 h gives 1.5,
\* 50 h gives 0.1, 6 h gives 0.5 and 12 h gives 0.25.
C12_TimeDecayPiecewise ==
    Returned("time_decay") =>
        LET td == config.time_decay
        IN  /\ YoungerThan(F(1)) => ret[1] = td.freshness_boost
            /\ OlderThan(td.max_age_hours) => ret[1] = td.min_score
            /\ (~YoungerThan(F(1)) /\ ~OlderThan(td.max_age_hours)) =>
                  ret[1] = HalfPowf(Div(R(AgeSecs, 3600), td.half_life_hours))
            /\ td = DefaultTimeDecayConfig =>
                  /\ AgeSecs = 1800 => ret[1] = R(3, 2)
                  /\ AgeSecs = 180000 => ret[1] = R(1, 10)
                  /\ AgeSecs = 21600 => ret[1] = R(1, 2)
                  /\ AgeSecs = 43200 => ret[1] = R(1, 4)

\* a post aged exactly one hour, and one aged exactly max_age_hours, got the
\* exponential value
C12_Witness ==
    /\ Returned("time_decay")
    /\ AgeSecs = 3600
    /\ ret[1] # config.time_decay.freshness_boost
    /\ ret[1] # config.time_decay.min_score

\* C13: with the default time-decay configuration time_decay returns a
\* multiplier within [min_score, freshness_boost] for every post age.
C13_TimeDecayWithinBounds ==
    (Returned("time_decay") /\ config.time_decay = DefaultTimeDecayConfig) =>
        /\ Leq(config.time_decay.min_score, ret[1])
        /\ Leq(ret[1], config.time_decay.freshness_boost)

\* zaps*Wz + replies*Wr + reposts*Wrp + likes*Wl + quotes*Wq + 1, for weights
\* that are whole numbers
WeightedSum(w, d) ==
    F(d.zaps * w.zap.n + d.replies * w.reply.n + d.reposts * w.repost.n
      + d.likes * w.like.n + d.quotes * w.quote.n + 1)

\* C14: engagement_score equals zaps*Wz + replies*Wr + reposts*Wrp +
\* likes*Wl + quotes*Wq + 1: 1.0 for all-zero counts, 236.0 for likes=10,
\* zaps=1, replies=2, reposts=1, quotes=0 with the default weights, at least
\* 1 when the weights are non-negative, and the bookmark weight has no part
\* in it.
C14_EngagementScoreFormula ==
    Returned("engagement_score") =>
        LET w == config.engagement_weights
            d == call.data
        IN  /\ \A k \in DOMAIN w : w[k].d = 1
            /\ ret[1] = WeightedSum(w, d)
            /\ d = DefaultEngagementData => ret[1] = F(1)
            /\ (w.zap = F(100) /\ w.reply = F(30) /\ w.repost = F(25) /\ w.like = F(5)
                /\ w.quote = F(35)
                /\ d = [likes |-> 10, reposts |-> 1, replies |-> 2, zaps |-> 1, quotes |-> 0])
                  => ret[1] = F(236)
            /\ (\A k \in DOMAIN w : w[k].n >= 0) => Leq(F(1), ret[1])

\* the counts of the example with quotes, under a bookmark weight other than
\* the default
C14_Witness ==
    /\ Returned("engagement_score")
    /\ config.engagement_weights.bookmark # DefaultEngagementWeights.bookmark
    /\ call.data.quotes > 0
    /\ call.data.likes = 10

\* the network-position multiplier of the specification, by precedence
PositionValue ==
    LET sb == config.social_boost
        pk == call.author_pubkey
    IN  IF pk \in call.follow_list /\ pk \in call.followers THEN sb.mutual_follow
        ELSE IF pk \in call.follow_list THEN sb.first_degree
        ELSE IF pk \in call.second_degree THEN sb.second_degree
        ELSE sb.unknown

\* the author has no counter in the engagement history
NoHistory ==
    /\ call.author_pubkey \notin DOMAIN call.engagement_history.liked_authors
    /\ call.author_pubkey \notin DOMAIN call.engagement_history.reposted_authors
    /\ call.author_pubkey \notin DOMAIN call.engagement_history.replied_authors

\* C15: social_boost's network-position multiplier is mutual_follow if the
\* author is in follow_list and in followers, else first_degree if in
\* follow_list, else second_degree if in second_degree_follows, else unknown,
\* for every combination of memberships; followers alone, or
\* second_degree_follows together with follow_list, never selects
\* second_degree or mutual_follow.
C15_SocialBoostPrecedence ==
    Returned("social_boost") =>
        LET sb == config.social_boost
            pk == call.author_pubkey
        IN  /\ NoHistory => ret[1] = PositionValue
            /\ \E b \in {F(1), R(3, 2), sb.high_engagement_author} :
                  ret[1] = Mul(PositionValue, b)
            /\ (NoHistory /\ pk \in call.followers /\ pk \notin call.follow_list
                 /\ pk \notin call.second_degree) => ret[1] = sb.unknown
            /\ (NoHistory /\ pk \in call.second_degree /\ pk \in call.follow_list) =>
                  ret[1] = IF pk \in call.followers THEN sb.mutual_follow
                           ELSE sb.first_degree

\* an author in follow_list and in second_degree_follows, not a follower,
\* without history
C15_Witness ==
    /\ Returned("social_boost")
    /\ NoHistory
    /\ call.author_pubkey \in call.follow_list \cap call.second_degree
    /\ call.author_pubkey \notin call.followers
    /\ ret[1] = config.social_boost.first_degree

\* liked + 2*reposted + 3*replied, a missing counter being 0
HistoryTotal ==
    LET h  == call.engagement_history
        pk == call.author_pubkey
    IN  (IF pk \in DOMAIN h.liked_authors THEN h.liked_authors[pk] ELSE 0)
        + 2 * (IF pk \in DOMAIN h.reposted_authors THEN h.reposted_authors[pk] ELSE 0)
        + 3 * (IF pk \in DOMAIN h.replied_authors THEN h.replied_authors[pk] ELSE 0)

\* C16: social_boost computes total = liked + 2*reposted + 3*replied from the
\* author's counters (missing = 0) and multiplies the network-position value
\* by high_engagement_author when total >= 10, by 1.5 when 5 <= total < 10 and
\* by 1.0 when total < 5; the result is the product of the two stages.
C16_SocialBoostPersonalization ==
    Returned("social_boost") =>
        /\ HistoryTotal >= 10 =>
              ret[1] = Mul(PositionValue, config.social_boost.high_engagement_author)
        /\ (5 <= HistoryTotal /\ HistoryTotal < 10) => ret[1] = Mul(PositionValue, R(3, 2))
        /\ HistoryTotal < 5 => ret[1] = Mul(PositionValue, F(1))

\* a total of exactly 10, made of a liked and a replied counter
C16_Witness ==
    /\ Returned("social_boost")
    /\ ~NoHistory
    /\ HistoryTotal = 10
    /\ call.author_pubkey \in DOMAIN call.engagement_history.liked_authors
    /\ call.author_pubkey \in DOMAIN call.engagement_history.replied_authors
    /\ ret[1] = Mul(PositionValue, config.social_boost.high_engagement_author)

\* number of leading characters two strings share
SharedPrefixLen(u, a) ==
    LET m == IF Len(u) < Len(a) THEN Len(u) ELSE Len(a)
    IN  Cardinality({k \in 1..m : SubSeq(u, 1, k) = SubSeq(a, 1, k)})

\* C17: geo_boost depends only on the length of the common leading-character
\* prefix of the two location strings: >= 5 gives 2.0, 3 or 4 gives 1.5,
\* exactly 2 gives 1.2, 0 or 1 gives 1.0, and it is 1.0 whenever either
\* location is absent.
C17_GeohashBoostByPrefix ==
    Returned("geohash_boost") =>
        IF call.user_geohash = None \/ call.author_geohash = None
        THEN ret[1] = F(1)
        ELSE LET n == SharedPrefixLen(call.user_geohash[1], call.author_geohash[1])
             IN  /\ n >= 5 => ret[1] = F(2)
                 /\ n \in {3, 4} => ret[1] = R(3, 2)
                 /\ n = 2 => ret[1] = R(6, 5)
                 /\ n \in {0, 1} => ret[1] = F(1)

\* two different strings that share exactly five leading characters
C17_Witness ==
    /\ Returned("geohash_boost")
    /\ call.user_geohash # None
    /\ call.author_geohash # None
    /\ call.user_geohash # call.author_geohash
    /\ SharedPrefixLen(call.user_geohash[1], call.author_geohash[1]) = 5
    /\ ret[1] = F(2)

\* (priority_tier, distance) of a is strictly smaller than that of b
KeyLess(a, b) ==
    \/ a.relay.priority < b.relay.priority
    \/ a.relay.priority = b.relay.priority /\ Less(a.distance, b.distance)

\* C20: find_nearest_relays returns the first min(count, table size) entries
\* of the node table sorted ascending by (priority, distance to the viewer):
\* along the result priorities never decrease, within one priority distances
\* never decrease, no node left out comes before a returned one, a priority-1
\* node precedes every priority-2 node however near that one is, and a node
\* at the viewer's exact coordinates has distance 0.0.
C20_NearestRelaysByPriorityThenDistance ==
    Returned("find_nearest_relays") =>
        LET r   == ret[1]
            all == ScoredRelays(call.user_lat, call.user_lon)
        IN  /\ Len(r) = Min(call.count, Len(GPS_RELAY_DATABASE))
            /\ \A i \in 1..Len(r) : Occ(all, r[i]) = 1 /\ Occ(r, r[i]) = 1
            /\ \A i \in 1..(Len(r) - 1) :
                  /\ r[i].relay.priority <= r[i + 1].relay.priority
                  /\ r[i].relay.priority = r[i + 1].relay.priority
                        => ~Less(r[i + 1].distance, r[i].distance)
            /\ \A j \in 1..Len(all) :
                  Occ(r, all[j]) = 0 => \A i \in 1..Len(r) : ~KeyLess(all[j], r[i])
            /\ \A i, j \in 1..Len(r) :
                  (r[i].relay.priority = 1 /\ r[j].relay.priority = 2) => i < j
            /\ \A i \in 1..Len(r) :
                  (r[i].relay.lat = call.user_lat /\ r[i].relay.lon = call.user_lon)
                      => r[i].distance = F(0)

\* the viewer stands at a priority-2 node, which is returned at distance 0
\* after priority-1 nodes that are farther away
C20_Witness ==
    /\ Returned("find_nearest_relays")
    /\ \E i, j \in 1..Len(ret[1]) :
          /\ i < j
          /\ ret[1][i].relay.priority = 1
          /\ ret[1][j].relay.priority = 2
          /\ ret[1][j].distance = F(0)
          /\ Less(F(1000), ret[1][i].distance)

\* the author has a verified identifier
Verified(profile) == profile # None /\ profile[1].nip05 # ""

\* the factor a follower count contributes: the quality of an author without a
\* profile who has that many followers
FollowerFactor(follower_count) == author_quality_f64(None, follower_count)

\* C19 without its last sentence: 1.0 with no verified identifier and no
\* follower, the verified identifier multiplying by 1.3, the follower count by
\* a factor that is at least 1.0, non-decreasing in the count and at most 1.5
AuthorQualityFactors ==
    Returned("author_quality") =>
        LET quality  == ret[1]
            verified == IF Verified(call.profile) THEN F64Lit(13, 10) ELSE F64OfNat(1)
            factor   == FollowerFactor(call.follower_count)
        IN  /\ call.follower_count = 0 => quality = verified
            /\ call.follower_count = 0 /\ ~Verified(call.profile)
                   => quality = [m |-> Two52, e |-> -52]
            /\ quality = F64Mul(verified, factor)
            /\ F64Leq(F64OfNat(1), factor)
            /\ F64Leq(factor, F64Lit(3, 2))
            /\ \A n \in FollowerCounts :
                   n <= call.follower_count
                       => /\ F64Leq(FollowerFactor(n), factor)
                          /\ F64Leq(author_quality_f64(call.profile, n), quality)

AuthorQualityWithin(low, high) ==
    Returned("author_quality") => F64Leq(low, ret[1]) /\ F64Leq(ret[1], high)

\* C19 as stated: author_quality is exactly 1.0 for an author with no verified
\* identifier and no follower, a verified identifier multiplies it by 1.3, a
\* positive follower_count by a factor in [1.0, 1.5] that is non-decreasing in
\* follower_count, and the result always lies in [1.0, 1.95].
C19_AuthorQualityAtMost195 ==
    AuthorQualityFactors /\ AuthorQualityWithin(F64OfNat(1), F64Lit(39, 20))

\* C19, with the upper bound the f64 product has: author_quality is exactly 1.0
\* for an author with no verified identifier and no follower, a verified
\* identifier multiplies it by 1.3, a positive follower_count by a factor in
\* [1.0, 1.5] that is non-decreasing in follower_count, and the result always
\* lies between 1.0 and the f64 product 1.3 * 1.5, which is
\* 1.9500000000000002, the f64 next above 1.95.
C19_AuthorQualityAtMostProduct ==
    /\ AuthorQualityFactors
    /\ AuthorQualityWithin(F64OfNat(1), F64Mul(F64Lit(13, 10), F64Lit(3, 2)))
    /\ F64Mul(F64Lit(13, 10), F64Lit(3, 2)).e = F64Lit(39, 20).e
    /\ F64Mul(F64Lit(13, 10), F64Lit(3, 2)).m = BigAdd(F64Lit(39, 20).m, <<1>>)

\* a verified author at the cap of the follower factor: the result is the f64
\* product 1.3 * 1.5, above 1.95
C19_Witness ==
    /\ Returned("author_quality")
    /\ Verified(call.profile)
    /\ call.follower_count >= 100000
    /\ FollowerFactor(call.follower_count) = F64Lit(3, 2)
    /\ F64Less(F64Lit(39, 20), ret[1])

\* C22: extract_2nd_degree_network returns exactly the pubkeys that occur in
\* the follow list of at least one key of my_follows and are not in my_follows;
\* the result is disjoint from my_follows, and the follow lists keyed by
\* accounts the viewer does not follow contribute nothing.
C22_SecondDegreeExact ==
    Returned("extract_2nd_degree_network") =>
        LET fof      == call.follows_of_follows
            followed == {k \in DOMAIN fof : k \in call.my_follows}
        IN  /\ \A p \in Pubkeys :
                   p \in ret[1] <=>
                       /\ p \notin call.my_follows
                       /\ \E k \in followed : \E i \in 1..Len(fof[k]) : fof[k][i] = p
            /\ ret[1] \subseteq Pubkeys
            /\ ret[1] \cap call.my_follows = {}
            /\ ret[1] = extract_2nd_degree_network(call.my_follows,
                                                   [k \in followed |-> fof[k]])

\* the shape of test_2nd_degree_extraction: a followed key lists a followed key
\* and a stranger, a key that is not followed lists another stranger
C22_Witness ==
    /\ Returned("extract_2nd_degree_network")
    /\ call.my_follows = {"a"}
    /\ call.follows_of_follows = ("a" :> <<"c", "a">>) @@ ("b" :> <<"b">>)
    /\ ret[1] = {"c"}

\* the sample URLs the url crate parses to a wss URL whose host is neither an
\* onion name nor the local machine
ExpectedAccepted == {UrlDamus, UrlPath, UrlOnionName}

\* the conditions of acceptance, read off the parsed URL
AcceptedUrl(url) ==
    LET parsed == Url_parse(url)
    IN  /\ parsed.ok
        /\ parsed.scheme = <<"w", "s", "s">>
        /\ parsed.host # None
        /\ ~EndsWith(parsed.host[1], <<".", "o", "n", "i", "o", "n">>)
        /\ parsed.host[1] # <<"l", "o", "c", "a", "l", "h", "o", "s", "t">>
        /\ parsed.host[1] # <<"1", "2", "7", ".", "0", ".", "0", ".", "1">>

\* C23: filter_valid_relays returns, in input order, exactly the input URLs
\* that is_valid_relay_url accepts with localhost disallowed (wss scheme, a
\* host, the host not ending in .onion and not localhost or 127.0.0.1); when
\* no input URL is accepted, the empty input included, it returns the single
\* configured default relay, so the result is never empty.
C23_FilterValidRelays ==
    Returned("filter_valid_relays") =>
        LET urls     == call.relays
            accepted == {i \in 1..Len(urls) : urls[i] \in ExpectedAccepted}
        IN  /\ \A u \in SampleUrls :
                   /\ u \in ExpectedAccepted <=> AcceptedUrl(u)
                   /\ u \in ExpectedAccepted <=> is_valid_relay_url(u, FALSE)
            /\ ret[1] # <<>>
            /\ accepted = {} => ret[1] = <<call.config.default_relay>>
            /\ accepted # {} =>
                   /\ Len(ret[1]) = Cardinality(accepted)
                   /\ \A i \in accepted :
                          ret[1][Cardinality({j \in accepted : j <= i})] = urls[i]

\* every URL of a non-empty input is rejected and the default relay is returned
C23_Witness ==
    /\ Returned("filter_valid_relays")
    /\ call.relays = <<UrlUpperCase, UrlOnion>>
    /\ ret[1] = <<DefaultRelayConfig.default_relay>>

\* the call of task t returns in this step
Returning(t, fn) == tasks[t].call.fn = fn /\ tasks[t].pc # "idle" /\ tasks'[t].pc = "idle"

\* the notes a finished get_recommended_feed ranked
FeedEvents(done) ==
    fetch_timeline(posts, AuthorPks(done.loc.snapshot), Since(now), done.call.limit * 3)

\* the step in which mark_not_interested(event, author) writes the modifier
\* sets it to max(0.7 * previous, 0.1), previous being 1.0 without an entry,
\* touches no other author and, in a map that only marks have written, raises
\* nothing
MarkLowersOneModifier ==
    \A t \in Tasks :
        Returning(t, "mark_not_interested") =>
            LET a        == tasks[t].call.author_pubkey
                before   == engine.author_scores
                after    == engine'.author_scores
                previous == IF a \in DOMAIN before THEN before[a] ELSE F(1)
                product  == Mul(R(7, 10), previous)
            IN  /\ DOMAIN after = DOMAIN before \cup {a}
                /\ after[a] = IF Less(product, R(1, 10)) THEN R(1, 10) ELSE product
                /\ \A b \in DOMAIN before \ {a} : after[b] = before[b]
                /\ audit.from_marks /\ a \in DOMAIN before => Leq(after[a], before[a])

\* a feed ranks an author without an entry as it would rank them with the
\* modifier 1.0
FeedDefaultsToOne ==
    \A t \in Tasks :
        Returning(t, "get_recommended_feed") /\ tasks'[t].last[1].ret.ok =>
            LET done == tasks'[t].last[1]
            IN  \A a \in {"a", "b", "c"} \ DOMAIN done.loc.snapshot.author_scores :
                    \E data \in EngagementOutcomes(FeedEvents(done)) :
                        done.ret.val =
                            rank_feed(config, FeedEvents(done), data,
                                      [FeedContext(done.loc.snapshot) EXCEPT
                                          !.author_scores = (a :> F(1)) @@ @],
                                      done.call.limit, now)

\* C21: the personalization modifier defaults to 1.0 for an author with no
\* entry; each mark_not_interested(event, author) sets that author's modifier
\* to max(0.7 * previous, 0.1) and changes no other author's; so while only
\* mark_not_interested has written the map, which started empty, every stored
\* modifier lies in [0.1, 0.7] and never increases from one call to the next.
C21_ModifierLoweredAndFloored ==
    /\ [](audit.from_marks =>
            \A a \in DOMAIN engine.author_scores :
                /\ Leq(R(1, 10), engine.author_scores[a])
                /\ Leq(engine.author_scores[a], R(7, 10)))
    /\ [][MarkLowersOneModifier /\ FeedDefaultsToOne]_vars

\* seven marks have brought one author to the floor while another, marked
\* once, stands at 0.7
C21_Witness ==
    /\ audit.from_marks
    /\ DOMAIN engine.author_scores = {"a", "b"}
    /\ engine.author_scores["a"] = R(1, 10)
    /\ engine.author_scores["b"] = R(7, 10)
    /\ Cardinality(audit.lowered) = 2

\* no task other than t has made a call on the engine yet
Alone(t) == \A u \in Tasks \ {t} : tasks[u].pc = "idle" /\ tasks[u].last = None

\* C24: after login(pubkey) returns Ok, current_pubkey() is pubkey and the
\* engine's follow_list and muted_pubkeys are the lists loaded for that
\* pubkey, in every outcome of the two fetches, also when a fetch fails after
\* a different user's lists were loaded.
C24_LoginLoadsLists ==
    [][\A t \in Tasks :
          Returning(t, "login") /\ tasks'[t].last[1].ret.ok /\ Alone(t) =>
              /\ engine'.user_pubkey = Some(tasks[t].call.pubkey)
              /\ engine'.follow_list = relays.contacts[tasks[t].call.pubkey]
              /\ engine'.muted_pubkeys = relays.mutes[tasks[t].call.pubkey]]_vars

\* a login that returned Ok left the engine with the lists of the user who
\* was logged in before
StaleListsAfterLogin ==
    /\ Alone(1)
    /\ tasks[1].last # None
    /\ tasks[1].last[1].call = LoginCall("u2")
    /\ tasks[1].last[1].ret = Ok(Unit)
    /\ engine.user_pubkey = Some("u2")
    /\ engine.follow_list = relays.contacts["u1"]
    /\ engine.follow_list # relays.contacts["u2"]

\* the calls of get_recommended_feed that have returned Ok
FeedsDone ==
    {tasks[t].last[1] : t \in {u \in Tasks : tasks[u].last # None
                                            /\ tasks[u].last[1].call.fn = "get_recommended_feed"
                                            /\ tasks[u].last[1].ret.ok}}

\* C25: once mark_not_interested(e, a) has completed, no get_recommended_feed
\* call that starts later returns a post with event_id e, whatever
\* record_engagement, mark_not_interested, follow_user, unfollow_user and
\* login calls run in between; a load_user_state that replaces the
\* not-interested set ends the obligation.
C25_MarkedNeverReturned ==
    \A done \in FeedsDone :
        \A i \in 1..Len(done.ret.val) :
            done.ret.val[i].event_id \notin done.loc.must_exclude

\* a feed that started after e1 was marked, fetched the notes of both
\* followed authors and returned the other one
C25_Witness ==
    \E done \in FeedsDone :
        /\ done.loc.must_exclude = {"e1"}
        /\ done.loc.snapshot.follow_list = {"a", "b"}
        /\ Len(done.ret.val) = 1
        /\ done.ret.val[1].event_id = "e2"

\* C26: each get_recommended_feed call ranks against a consistent snapshot
\* even when mark_not_interested runs concurrently: every mark whose lowered
\* modifier is in the author_scores it passes to rank_feed has its event_id
\* in the not_interested set of the same ranking.
C26_SnapshotConsistent ==
    \A done \in FeedsDone :
        \A mark \in done.loc.lowered_seen :
            mark[1] \in done.loc.snapshot.not_interested_posts

\* a feed returned a post that was marked while the feed took its snapshot,
\* ranked with the modifier the mark had already lowered
TornSnapshotRanked ==
    \E done \in FeedsDone :
        /\ done.loc.lowered_seen = {<<"e1", "a">>}
        /\ done.loc.snapshot.not_interested_posts = {}
        /\ done.loc.snapshot.author_scores = "a" :> R(7, 10)
        /\ \E i \in 1..Len(done.ret.val) : done.ret.val[i].event_id = "e1"

\* task t waits in the queue of lock l
Waits(t, l) == \E i \in 1..Len(locks[l].queue) : locks[l].queue[i][1] = t

\* task t cannot go on before task u has: u holds a lock t waits for, or
\* stands before t in its queue
WaitsFor(t, u) ==
    \E l \in LockNames :
        \E i \in 1..Len(locks[l].queue) :
            /\ locks[l].queue[i][1] = t
            /\ \/ Holds(locks[l], u)
               \/ \E j \in 1..(i - 1) : locks[l].queue[j][1] = u

CyclicWait ==
    \/ \E t, u \in Tasks : WaitsFor(t, u) /\ WaitsFor(u, t)
    \/ \E t, u, v \in Tasks : WaitsFor(t, u) /\ WaitsFor(u, v) /\ WaitsFor(v, t)

\* every task has made all its calls and every call has returned
AllReturned == \A t \in Tasks : Idle(t) /\ tasks[t].program = <<>>

\* C27: under every interleaving of concurrent mark_not_interested,
\* record_engagement, load_user_state, export_user_state, login, follow_user,
\* unfollow_user and get_recommended_feed calls on one engine the user-state
\* locks are never in a cyclic wait, and every call runs to completion, which
\* it cannot do before it was let into each lock it asked for; the network
\* fetches return.
C27_NoDeadlock == []~CyclicWait /\ <>AllReturned

\* a call that holds one lock waits for the next one, which another call holds
C27_Witness ==
    \E t \in Tasks : \E held \in LockNames : \E wanted \in LockNames \ {held} :
        /\ Holds(locks[held], t)
        /\ Waits(t, wanted)
        /\ \E u \in Tasks \ {t} : Holds(locks[wanted], u)

\* the last call of task t was a follow_user that returned Ok
FollowedOk(t) ==
    /\ tasks[t].last # None
    /\ tasks[t].last[1].call.fn = "follow_user"
    /\ tasks[t].last[1].ret = Ok(Unit)

\* C28: when two follow_user calls for different targets, made by two tasks
\* for the same logged-in user, have both returned Ok, the contact list
\* published last contains both targets and every key followed before.
C28_BothFollowsPublished ==
    \A t, u \in Tasks :
        /\ t # u
        /\ FollowedOk(t)
        /\ FollowedOk(u)
        /\ tasks[t].last[1].call.target_pubkey # tasks[u].last[1].call.target_pubkey
        => /\ tasks[t].last[1].call.target_pubkey \in relays.contacts[Signer]
           /\ tasks[u].last[1].call.target_pubkey \in relays.contacts[Signer]
           /\ Relays0.contacts[Signer] \subseteq relays.contacts[Signer]

\* both follows returned Ok and the local list has both targets, but the
\* contact list on the relays lacks one of them
LostFollow ==
    /\ FollowedOk(1)
    /\ FollowedOk(2)
    /\ engine.user_pubkey = Some("u1")
    /\ engine.follow_list = {"a", "b", "c"}
    /\ relays.contacts[Signer] = {"a", "c"}

\* task t, inside follow_user, takes a step
FollowSteps(t) == tasks[t].call.fn = "follow_user" /\ tasks'[t] # tasks[t]

\* C29: when follow_user returns an error the engine's follow_list is as it
\* was: NoSigningMethod, before any fetch or publish, when no user is logged
\* in; AlreadyFollowing, without a publish, when the fetched contact list
\* contains the target; the upstream error when the fetch or the publish
\* fails.  The target enters follow_list only in the step that follows a
\* successful publish and returns Ok.
C29_FollowErrorsLeaveList ==
    [][\A t \in Tasks :
          FollowSteps(t) =>
              LET target   == tasks[t].call.target_pubkey
                  from     == tasks[t].pc
                  returned == tasks'[t].pc = "idle"
                  r        == tasks'[t].last[1].ret
              IN  /\ engine'.follow_list # engine.follow_list =>
                        /\ from = "follow_list"
                        /\ returned /\ r = Ok(Unit)
                        /\ engine'.follow_list = engine.follow_list \cup {target}
                  /\ relays' # relays => from = "publish" /\ ~returned
                  /\ from = "published" => ~returned
                  /\ returned /\ r = Ok(Unit) => from = "follow_list" /\ target \in engine'.follow_list
                  /\ returned /\ r = Err("NoSigningMethod") =>
                        from = "user_pubkey" /\ engine.user_pubkey = None
                  /\ from = "user_pubkey" /\ engine.user_pubkey = None =>
                        returned /\ r = Err("NoSigningMethod")
                  /\ returned /\ r = Err("AlreadyFollowing") =>
                        from = "fetch" /\ target \in relays.contacts[tasks[t].loc.pubkey]
                  /\ from = "fetch" /\ target \in relays.contacts[tasks[t].loc.pubkey] =>
                        returned /\ r \in {Err("AlreadyFollowing"), Err("relay")}
                  /\ returned /\ r = Err("relay") => from \in {"fetch", "publish"}]_vars

\* one follow_user has returned AlreadyFollowing and another the error of the
\* relays; the local list is the one the login stored and nothing was published
C29_Witness ==
    /\ tasks[1].last # None
    /\ tasks[1].last[1].call = FollowCall("a")
    /\ tasks[1].last[1].ret = Err("AlreadyFollowing")
    /\ tasks[2].last # None
    /\ tasks[2].last[1].call = FollowCall("c")
    /\ tasks[2].last[1].ret = Err("relay")
    /\ engine.follow_list = {"a"}
    /\ relays = Relays0

\* the categories of the posts a finished feed returned
CategoriesOf(done) ==
    {Category(done.ret.val[i], FeedContext(done.loc.snapshot)) : i \in 1..Len(done.ret.val)}

\* C30: no engine operation writes second_degree_follows: it is the empty set
\* in every reachable engine state, get_recommended_feed passes an empty
\* second-degree set to rank_feed, and every post it returns was categorised
\* first-degree or out-of-network.
C30_SecondDegreeAlwaysEmpty ==
    /\ engine.second_degree_follows = {}
    /\ \A done \in FeedsDone :
          /\ FeedContext(done.loc.snapshot).second_degree_follows = {}
          /\ CategoriesOf(done) \subseteq {"1st", "out"}

\* with a user logged in, one feed has returned a first-degree post and
\* another an out-of-network post
C30_Witness ==
    /\ engine.user_pubkey # None
    /\ \E first, out \in FeedsDone :
          /\ CategoriesOf(first) = {"1st"}
          /\ CategoriesOf(out) = {"out"}

====
